---- MODULE Spec2Model ----
(***************************************************************************)
(* Content graph store of the author-mode backend: Components, References  *)
(* and Nodes kept as one JSON file per record (backend/database.py), the   *)
(* tree operations on them and the route handlers that combine them.       *)
(*                                                                         *)
(* A store is a function from the ids that have a file to the record in    *)
(* the file.  Python's None is Null; an id is a natural number.  The code  *)
(* tests ids with "if x:", so the id 0 counts as absent there: Truthy.     *)
(*                                                                         *)
(* generate_id draws from 0 .. 2^32-1 with no collision check.  The model  *)
(* draws from 0 .. MaxId and never draws an id twice for the same kind of  *)
(* record (the collision is the documented risk of spec section 9, and is  *)
(* not modelled).  The code only tests ids for equality and truthiness, so *)
(* the non-zero ids are interchangeable and are handed out in increasing   *)
(* order; 0 can be drawn at any time, MaxZeroDraws times in one behaviour. *)
(***************************************************************************)
EXTENDS Integers, Sequences, FiniteSets, TLC

\* ------------------------------------------------------------------ bounds
\* Largest id generate_id returns in the model (the code: 0xFFFFFFFF).
MaxId == 3
\* Number of times generate_id returns 0 in one behaviour.
MaxZeroDraws == 1
\* Number of request threads of the concurrent specifications.
NumThreads == 2
\* Frames after which a recursion is cut (CPython raises RecursionError).
RecursionLimit == 8
\* Iterations after which a while loop that never ends is cut.
LoopLimit == 6
\* Number of move_node calls of one behaviour.
MaxMoves == 1
MaxChainMoves == 3
\* Number of crashes of one behaviour.
MaxCrashes == 2
\* Number of requests the threads take in one behaviour.
MaxRequests == 3
\* Largest scalar value of a config key in the merge_config inputs.
MaxScalar == 2
MaxPaths == 2
MaxBodySteps == 4

Null == -1
Ids == 0 .. MaxId
Threads == 1 .. NumThreads

\* Python truthiness of an Optional[int]: None and 0 are both false.
Truthy(x) == x # Null /\ x # 0

\* The component types that are modelled: two containers and one unit.
COMPONENT_TYPES == <<"ViewContainer", "ListContainer", "PlainTextUnit">>
CompTypeSet == {COMPONENT_TYPES[i] : i \in DOMAIN COMPONENT_TYPES}
ContainerTypes == {"ViewContainer", "ListContainer"}

\* The component type POST /components is asked for: a unit (containers are
\* created by POST /views and by the add-child requests).
CreateTypes == {"PlainTextUnit"}

\* The component types an add-child request asks for: a container, a unit.
ChildTypes == {"ListContainer", "PlainTextUnit"}

\* isinstance(comp, Container)
IsContainer(comp) == comp.type \in ContainerTypes

\* The overrides POST /references carries: none.
NoOverrides == [k \in {} |-> 0]
OverrideChoices == {NoOverrides}

VARIABLES
    nodes,      \* content/nodes/<node_id>.json
    refs,       \* content/references/<ref_id>.json
    comps,      \* content/components/<Type>/<comp_id>.json
    nextId,     \* per kind, the next non-zero id generate_id hands out
    zeroUsed,   \* per kind, whether generate_id already returned 0
    moves,      \* number of move_node calls so far
    crashes,    \* number of crashes so far
    requests,   \* number of requests the threads have taken so far
    pc,         \* per thread, the position inside its request handler
    loc,        \* per thread, the handler's local variables
    last        \* the last completed operation and what it returned

vars == <<nodes, refs, comps, nextId, zeroUsed, moves, crashes, requests, pc, loc, last>>

Kinds == {"node", "ref", "comp"}

\* ------------------------------------------------------------ the stores
Put(store, id, rec) == [x \in (DOMAIN store) \cup {id} |-> IF x = id THEN rec ELSE store[x]]
Remove(store, id) == [x \in (DOMAIN store) \ {id} |-> store[x]]
EmptyStore == [x \in {} |-> 0]

\* A database value: the three directories.
DB(n, r, c) == [n |-> n, r |-> r, c |-> c]
Cur == DB(nodes, refs, comps)

\* generate_id: the ids a draw for `kind` can return now.
ZeroChoice(kind) ==
    IF ~zeroUsed[kind] /\ Cardinality({k \in Kinds : zeroUsed[k]}) < MaxZeroDraws
    THEN {0} ELSE {}

GenChoices(kind) ==
    ZeroChoice(kind) \cup (IF nextId[kind] <= MaxId THEN {nextId[kind]} ELSE {})

\* The ids of `kind` not drawn yet.
FreeIds(kind) == ZeroChoice(kind) \cup (nextId[kind] .. MaxId)

\* The bookkeeping of the draws of one handler: draws[kind] is the id drawn
\* for that kind, or Null when the handler drew none.
NextAfter(draws) == [k \in Kinds |-> IF draws[k] > 0 THEN nextId[k] + 1 ELSE nextId[k]]
ZeroAfter(draws) == [k \in Kinds |-> zeroUsed[k] \/ draws[k] = 0]
Draws(node_id, ref_id, comp_id) ==
    [k \in Kinds |-> IF k = "node" THEN node_id ELSE IF k = "ref" THEN ref_id ELSE comp_id]

NewNode(ref_id, parent, prev, next) ==
    [ref_id |-> ref_id, parent_node_id |-> parent,
     previous_node_id |-> prev, next_node_id |-> next]

NewReference(node_id, comp_id, overrides) ==
    [node_id |-> node_id, comp_id |-> comp_id, overrides |-> overrides]

NewComponent(type) ==
    [type |-> type, reference_count |-> 0, child_node_id |-> Null]

\* ------------------------------------------------- reference counting
\* Component.increment_reference_count
IncrementReferenceCount(comp) == [comp EXCEPT !.reference_count = @ + 1]

\* (mutant) the decrement without the floor.
DecrementUnclamped(comp) == [comp EXCEPT !.reference_count = @ - 1]

\* Component.decrement_reference_count: floor at 0.
DecrementReferenceCount(comp) ==
    IF comp.reference_count > 0
    THEN [comp EXCEPT !.reference_count = @ - 1]
    ELSE comp

\* (mutant) the incremented component is never saved.
IncrementWithoutSave(db, comp_id) == db

\* increment_component_ref_count: load by id, increment, save.
IncrementComponentRefCount(db, comp_id) ==
    IF comp_id \in DOMAIN db.c
    THEN [db EXCEPT !.c = Put(db.c, comp_id, IncrementReferenceCount(db.c[comp_id]))]
    ELSE db

\* decrement_component_ref_count: load by id, decrement, save.
DecrementComponentRefCount(db, comp_id) ==
    IF comp_id \in DOMAIN db.c
    THEN [db EXCEPT !.c = Put(db.c, comp_id, DecrementReferenceCount(db.c[comp_id]))]
    ELSE db

\* create_reference_to_component, with the id its generate_id call drew.
CreateReferenceToComponent(db, ref_id, comp_id, overrides, node_id) ==
    LET d1 == IncrementComponentRefCount(db, comp_id)
    IN [d1 EXCEPT !.r = Put(d1.r, ref_id, NewReference(node_id, comp_id, overrides))]

\* delete_reference
DeleteReference(db, ref_id) ==
    IF ref_id \in DOMAIN db.r
    THEN LET d1 == DecrementComponentRefCount(db, db.r[ref_id].comp_id)
         IN [d1 EXCEPT !.r = Remove(d1.r, ref_id)]
    ELSE db

\* The References whose comp_id is c.
RefsTo(rs, c) == {r \in DOMAIN rs : rs[r].comp_id = c}

\* ------------------------------------------------------------ the node tree
\* (mutant) a delete that also unlinks the node from its siblings and from
\* the Container that starts with it.
DeleteNodeUnlinking(db, node_id) ==
    IF node_id \notin DOMAIN db.n
    THEN db
    ELSE LET node == db.n[node_id]
             d1 == IF Truthy(node.ref_id) THEN DeleteReference(db, node.ref_id) ELSE db
         IN [d1 EXCEPT
               !.n = [m \in (DOMAIN d1.n) \ {node_id} |->
                        [d1.n[m] EXCEPT
                           !.next_node_id = IF @ = node_id THEN node.next_node_id ELSE @,
                           !.previous_node_id = IF @ = node_id THEN node.previous_node_id ELSE @]],
               !.c = [c \in DOMAIN d1.c |->
                        [d1.c[c] EXCEPT
                           !.child_node_id = IF @ = node_id THEN node.next_node_id ELSE @]]]

\* delete_node (shallow): the node's Reference, then the node's file.
DeleteNode(db, node_id) ==
    IF node_id \notin DOMAIN db.n
    THEN db
    ELSE LET node == db.n[node_id]
             d1 == IF Truthy(node.ref_id) THEN DeleteReference(db, node.ref_id) ELSE db
         IN [d1 EXCEPT !.n = Remove(d1.n, node_id)]

\* The value delete_node returns.
DeleteNodeResult(db, node_id) == node_id \in DOMAIN db.n

\* _delete_node_tree: the next sibling's tree, then the container's child
\* tree, then the node.  err: the recursion passed RecursionLimit frames and
\* the RecursionError unwound every frame (no pending delete_node ran).
RECURSIVE DeleteNodeTree(_, _, _)
DeleteNodeTree(db, node_id, depth) ==
    IF depth > RecursionLimit THEN [db |-> db, err |-> TRUE]
    ELSE IF node_id \notin DOMAIN db.n THEN [db |-> db, err |-> FALSE]
    ELSE
      LET node == db.n[node_id]
          s1 == IF Truthy(node.next_node_id)
                THEN DeleteNodeTree(db, node.next_node_id, depth + 1)
                ELSE [db |-> db, err |-> FALSE]
      IN IF s1.err THEN s1
         ELSE
           LET d1 == s1.db
               hasRef == Truthy(node.ref_id) /\ node.ref_id \in DOMAIN d1.r
               comp_id == IF hasRef THEN d1.r[node.ref_id].comp_id ELSE Null
               hasComp == hasRef /\ comp_id \in DOMAIN d1.c
               s2 == IF hasComp /\ IsContainer(d1.c[comp_id])
                        /\ Truthy(d1.c[comp_id].child_node_id)
                     THEN DeleteNodeTree(d1, d1.c[comp_id].child_node_id, depth + 1)
                     ELSE [db |-> d1, err |-> FALSE]
           IN IF s2.err THEN s2
              ELSE [db |-> DeleteNode(s2.db, node_id), err |-> FALSE]

\* move_node on an existing node: unlink from the old neighbours, link
\* after after_node_id.  Every load and save in the order of the code;
\* old_prev and old_next are both loaded before either is saved.
MoveNode(db, node_id, new_parent_id, after_node_id) ==
    LET node == db.n[node_id]
        hasOldPrev == Truthy(node.previous_node_id) /\ node.previous_node_id \in DOMAIN db.n
        hasOldNext == Truthy(node.next_node_id) /\ node.next_node_id \in DOMAIN db.n
        n1 == IF hasOldPrev
              THEN Put(db.n, node.previous_node_id,
                       [db.n[node.previous_node_id] EXCEPT !.next_node_id = node.next_node_id])
              ELSE db.n
        n2 == IF hasOldNext
              THEN Put(n1, node.next_node_id,
                       [db.n[node.next_node_id] EXCEPT !.previous_node_id = node.previous_node_id])
              ELSE n1
        hasAfter == Truthy(after_node_id) /\ after_node_id \in DOMAIN n2
        before_id == IF hasAfter THEN n2[after_node_id].next_node_id ELSE Null
        hasBefore == hasAfter /\ Truthy(before_id) /\ before_id \in DOMAIN n2
        moved == [node EXCEPT !.parent_node_id = new_parent_id,
                              !.previous_node_id = after_node_id,
                              !.next_node_id = IF hasBefore THEN before_id ELSE Null]
        n3 == IF hasAfter
              THEN Put(n2, after_node_id, [n2[after_node_id] EXCEPT !.next_node_id = node_id])
              ELSE n2
        n4 == IF hasBefore
              THEN Put(n3, before_id, [n2[before_id] EXCEPT !.previous_node_id = node_id])
              ELSE n3
    IN [db EXCEPT !.n = Put(n4, node_id, moved)]

\* ------------------------------------------------------------- resolution
\* Component.get_config: the serialisable fields of the variant; a container
\* also exposes child_node_id.
GetConfig(comp) ==
    IF IsContainer(comp)
    THEN [k \in {"name", "child_node_id"} |->
             IF k = "name" THEN "base" ELSE comp.child_node_id]
    ELSE [k \in {"content"} |-> "base"]

\* (mutant) nested objects are merged key by key instead of replaced.
MergeDeep(base_config, overrides) ==
    [k \in (DOMAIN base_config) \cup (DOMAIN overrides) |->
        IF k \in DOMAIN overrides /\ k \in DOMAIN base_config
           /\ "scalar" \notin DOMAIN overrides[k] /\ "scalar" \notin DOMAIN base_config[k]
        THEN [j \in (DOMAIN base_config[k]) \cup (DOMAIN overrides[k]) |->
                 IF j \in DOMAIN overrides[k] THEN overrides[k][j] ELSE base_config[k][j]]
        ELSE IF k \in DOMAIN overrides THEN overrides[k] ELSE base_config[k]]

\* Reference.merge_config: base_config.copy() when the overrides are falsy
\* (None and {} alike, both the empty map here), else dict.copy() then
\* dict.update(overrides).
MergeConfig(base_config, overrides) ==
    IF DOMAIN overrides = {}
    THEN base_config
    ELSE [k \in (DOMAIN base_config) \cup (DOMAIN overrides) |->
             IF k \in DOMAIN overrides THEN overrides[k] ELSE base_config[k]]

NotFound == [status |-> "notfound"]
Diverged == [status |-> "diverged"]
RecursionError == [status |-> "recursion_error"]

\* (mutant) resolve_node that removes a Node whose Reference has no record.
ResolvePrunes(db, node_id) ==
    IF node_id \in DOMAIN db.n /\ db.n[node_id].ref_id \notin DOMAIN db.r
    THEN [db EXCEPT !.n = Remove(db.n, node_id)]
    ELSE db

\* What resolve_node leaves in the three directories: it only loads.
ResolveWrites(db, node_id) == db

\* (mutant) resolve_node that answers with a default record.
ResolveNodeDefault(db, node_id, depth) ==
    [status |-> "ok", node_id |-> node_id, ref_id |-> Null, comp_id |-> Null,
     type |-> "PlainTextUnit", config |-> NoOverrides, children |-> <<>>]

\* resolve_node.  ResolveNode is the function, ResolveChildren its while
\* loop from child_id on.  "recursion_error": the recursion passed
\* RecursionLimit frames and the interpreter's RecursionError unwound every
\* frame.  "diverged": the while loop passed LoopLimit iterations (a cyclic
\* sibling chain; the call never returns).
RECURSIVE ResolveNode(_, _, _)
RECURSIVE ResolveChildren(_, _, _, _)
ResolveNode(db, node_id, depth) ==
    IF depth > RecursionLimit THEN RecursionError
    ELSE IF node_id \notin DOMAIN db.n THEN NotFound
    ELSE LET node == db.n[node_id] IN
      IF node.ref_id \notin DOMAIN db.r THEN NotFound
      ELSE LET ref == db.r[node.ref_id] IN
        IF ref.comp_id \notin DOMAIN db.c THEN NotFound
        ELSE
          LET comp == db.c[ref.comp_id]
              kids == IF IsContainer(comp) /\ Truthy(comp.child_node_id)
                      THEN ResolveChildren(db, comp.child_node_id, depth, 1)
                      ELSE [status |-> "ok", list |-> <<>>]
          IN IF kids.status # "ok" THEN [status |-> kids.status]
             ELSE [status |-> "ok",
                   node_id |-> node_id,
                   ref_id |-> node.ref_id,
                   comp_id |-> ref.comp_id,
                   type |-> comp.type,
                   config |-> MergeConfig(GetConfig(comp), ref.overrides),
                   children |-> kids.list]

ResolveChildren(db, child_id, depth, iter) ==
    IF ~Truthy(child_id) THEN [status |-> "ok", list |-> <<>>]
    ELSE IF iter > LoopLimit THEN [status |-> "diverged", list |-> <<>>]
    ELSE
      LET child_resolved == ResolveNode(db, child_id, depth + 1)
          next_id == IF child_id \in DOMAIN db.n THEN db.n[child_id].next_node_id ELSE Null
      IN IF child_resolved.status \in {"diverged", "recursion_error"}
         THEN [status |-> child_resolved.status, list |-> <<>>]
         ELSE
           LET rest == ResolveChildren(db, next_id, depth, iter + 1)
           IN IF rest.status # "ok" THEN rest
              ELSE [status |-> "ok",
                    list |-> (IF child_resolved.status = "ok"
                              THEN <<child_resolved>> ELSE <<>>) \o rest.list]

\* -------------------------------------------------------------- validation
\* validate_integrity, the reference-count part: the components whose stored
\* count differs from the count of a full scan of the References.
RefCountDiagnostics(db) ==
    {c \in DOMAIN db.c : db.c[c].reference_count # Cardinality(RefsTo(db.r, c))}

\* One entry of the list validate_integrity returns: the entity and id the
\* message names, the field found wrong and the value it holds.
Diagnostic(entity, id, field, value) ==
    [entity |-> entity, id |-> id, field |-> field, value |-> value]

\* validate_integrity: the diagnostics of the three passes (nodes, references,
\* reference counts), as the set of the list's entries.
ValidateIntegrity(db) ==
    {Diagnostic("Node", n, "ref_id", db.n[n].ref_id) :
        n \in {x \in DOMAIN db.n : db.n[x].ref_id \notin DOMAIN db.r}}
    \cup {Diagnostic("Node", n, "parent_node_id", db.n[n].parent_node_id) :
        n \in {x \in DOMAIN db.n : /\ Truthy(db.n[x].parent_node_id)
                                   /\ db.n[x].parent_node_id \notin DOMAIN db.n}}
    \cup {Diagnostic("Node", n, "previous_node_id", db.n[n].previous_node_id) :
        n \in {x \in DOMAIN db.n : /\ Truthy(db.n[x].previous_node_id)
                                   /\ db.n[x].previous_node_id \notin DOMAIN db.n}}
    \cup {Diagnostic("Node", n, "next_node_id", db.n[n].next_node_id) :
        n \in {x \in DOMAIN db.n : /\ Truthy(db.n[x].next_node_id)
                                   /\ db.n[x].next_node_id \notin DOMAIN db.n}}
    \cup {Diagnostic("Reference", r, "comp_id", db.r[r].comp_id) :
        r \in {x \in DOMAIN db.r : db.r[x].comp_id \notin DOMAIN db.c}}
    \cup {Diagnostic("Component", c, "reference_count", db.c[c].reference_count) :
        c \in RefCountDiagnostics(db)}

\* ------------------------------------------------------ the route handlers
\* The walk of add_child_to_node and add_component_to_view to the last child:
\* from current_id along next_node_id to the first id that has no node or no
\* (truthy) next.  hang: the loop passed LoopLimit iterations (a cyclic chain).
RECURSIVE LastChild(_, _, _)
LastChild(ns, current_id, iter) ==
    IF iter > LoopLimit THEN [hang |-> TRUE, id |-> Null]
    ELSE IF current_id \notin DOMAIN ns \/ ~Truthy(ns[current_id].next_node_id)
    THEN [hang |-> FALSE, id |-> current_id]
    ELSE LastChild(ns, ns[current_id].next_node_id, iter + 1)

\* Steps 6 of both add handlers: link the new node into its neighbours.
LinkNeighbours(ns, new_id, prev_node_id, next_node_id) ==
    LET n1 == IF Truthy(prev_node_id) /\ prev_node_id \in DOMAIN ns
              THEN Put(ns, prev_node_id, [ns[prev_node_id] EXCEPT !.next_node_id = new_id])
              ELSE ns
    IN IF Truthy(next_node_id) /\ next_node_id \in DOMAIN n1
       THEN Put(n1, next_node_id, [n1[next_node_id] EXCEPT !.previous_node_id = new_id])
       ELSE n1

\* POST /nodes/<node_id>/children on an existing parent node; cid, rid, nid
\* are the ids drawn for the component, the reference and the node.
AddChild(db, node_id, comp_type, after_arg, cid, rid, nid) ==
    LET parent == db.n[node_id]
        d1 == [db EXCEPT !.c = Put(db.c, cid, NewComponent(comp_type))]
        d2 == CreateReferenceToComponent(d1, rid, cid, NoOverrides, 0)
        hasPRef == parent.ref_id \in DOMAIN d2.r
        pcid == IF hasPRef THEN d2.r[parent.ref_id].comp_id ELSE Null
        isCont == hasPRef /\ pcid \in DOMAIN d2.c /\ IsContainer(d2.c[pcid])
        parent_comp == d2.c[pcid]
        walk == IF isCont /\ ~Truthy(after_arg) /\ Truthy(parent_comp.child_node_id)
                THEN LastChild(d2.n, parent_comp.child_node_id, 1)
                ELSE [hang |-> FALSE, id |-> after_arg]
        after_node_id == walk.id
        next_node_id == IF Truthy(after_node_id) /\ after_node_id \in DOMAIN d2.n
                        THEN d2.n[after_node_id].next_node_id ELSE Null
        n3 == Put(d2.n, nid, NewNode(rid, node_id, after_node_id, next_node_id))
        n5 == LinkNeighbours(n3, nid, after_node_id, next_node_id)
        c6 == IF isCont /\ ~Truthy(parent_comp.child_node_id)
              THEN Put(d2.c, pcid, [parent_comp EXCEPT !.child_node_id = nid])
              ELSE d2.c
    IN IF walk.hang THEN [db |-> d2, hang |-> TRUE]
       ELSE [db |-> DB(n5, d2.r, c6), hang |-> FALSE]

\* POST /views/<comp_id>/components on an existing ViewContainer; owner is
\* the Reference the scan for the view's node stops at (Null: none matches).
AddToView(db, comp_id, comp_type, after_arg, owner, cid, rid, nid) ==
    LET view == db.c[comp_id]
        d1 == [db EXCEPT !.c = Put(db.c, cid, NewComponent(comp_type))]
        d2 == CreateReferenceToComponent(d1, rid, cid, NoOverrides, 0)
        walk == IF Truthy(view.child_node_id) /\ ~Truthy(after_arg)
                THEN LastChild(d2.n, view.child_node_id, 1)
                ELSE [hang |-> FALSE, id |-> after_arg]
        prev_node_id == walk.id
        next_node_id == IF Truthy(view.child_node_id) /\ Truthy(after_arg)
                           /\ after_arg \in DOMAIN d2.n
                        THEN d2.n[after_arg].next_node_id ELSE Null
        view_node_id == IF owner = Null THEN Null ELSE d2.r[owner].node_id
        n3 == Put(d2.n, nid, NewNode(rid, view_node_id, prev_node_id, next_node_id))
        r3 == Put(d2.r, rid, [d2.r[rid] EXCEPT !.node_id = nid])
        n5 == LinkNeighbours(n3, nid, prev_node_id, next_node_id)
        c6 == IF ~Truthy(view.child_node_id)
              THEN Put(d2.c, comp_id, [view EXCEPT !.child_node_id = nid])
              ELSE d2.c
    IN IF walk.hang THEN [db |-> d2, hang |-> TRUE]
       ELSE [db |-> DB(n5, r3, c6), hang |-> FALSE]

\* The References a scan "for ref in get_all_references(): if ref.comp_id ==
\* comp_id and ref.node_id: ...; break" can stop at (the listing order is the
\* directory's), or {Null} when no Reference matches.
OwnerChoices(rs, comp_id) ==
    LET m == {r \in DOMAIN rs : rs[r].comp_id = comp_id /\ Truthy(rs[r].node_id)}
    IN IF m = {} THEN {Null} ELSE m

\* POST /views: component, reference, root node, then the back-pointer.
CreateViewOp(db, cid, rid, nid) ==
    LET d1 == [db EXCEPT !.c = Put(db.c, cid, NewComponent("ViewContainer"))]
        d2 == CreateReferenceToComponent(d1, rid, cid, NoOverrides, 0)
        n3 == Put(d2.n, nid, NewNode(rid, Null, Null, Null))
    IN DB(n3, Put(d2.r, rid, [d2.r[rid] EXCEPT !.node_id = nid]), d2.c)

\* DELETE /views/<comp_id> on an existing ViewContainer; first is the first
\* Reference of the listing whose comp_id is the view (Null: none).
DeleteViewOp(db, comp_id, first) ==
    LET d1 == IF first = Null THEN db
              ELSE IF Truthy(db.r[first].node_id)
                   THEN DeleteNode(db, db.r[first].node_id)
                   ELSE DeleteReference(db, first)
    IN [d1 EXCEPT !.c = Remove(d1.c, comp_id)]

FirstChoices(rs, comp_id) ==
    IF RefsTo(rs, comp_id) = {} THEN {Null} ELSE RefsTo(rs, comp_id)

\* ------------------------------------------------------------------- state
NoLocals == [op |-> "none"]
Done(op, id, ret) == [op |-> op, id |-> id, ret |-> ret]

Init ==
    /\ nodes = EmptyStore
    /\ refs = EmptyStore
    /\ comps = EmptyStore
    /\ nextId = [k \in Kinds |-> 1]
    /\ zeroUsed = [k \in Kinds |-> FALSE]
    /\ moves = 0
    /\ crashes = 0
    /\ requests = 0
    /\ pc = [t \in Threads |-> "idle"]
    /\ loc = [t \in Threads |-> NoLocals]
    /\ last = Done("init", Null, "none")

\* The database after a whole handler ran.
Becomes(db) == nodes' = db.n /\ refs' = db.r /\ comps' = db.c
Drew(node_id, ref_id, comp_id) ==
    /\ nextId' = NextAfter(Draws(node_id, ref_id, comp_id))
    /\ zeroUsed' = ZeroAfter(Draws(node_id, ref_id, comp_id))
    /\ Cardinality({k \in Kinds : zeroUsed'[k]}) <= MaxZeroDraws
Sequential == UNCHANGED <<pc, loc, moves, crashes, requests>>

\* ------------------------------------------- whole operations, one at a time
\* POST /components/<comp_type>: a standalone component, reference_count 0.
CreateComponent ==
    \E comp_type \in CreateTypes, cid \in GenChoices("comp") :
        /\ Becomes([Cur EXCEPT !.c = Put(comps, cid, NewComponent(comp_type))])
        /\ Drew(Null, Null, cid)
        /\ last' = Done("create_component", cid, "ok")
        /\ Sequential

\* attach: create_reference_to_component on an existing Component.
Attach ==
    \E comp_id \in DOMAIN comps, overrides \in OverrideChoices,
       node_id \in {0} \cup DOMAIN nodes, rid \in GenChoices("ref") :
        /\ Becomes(CreateReferenceToComponent(Cur, rid, comp_id, overrides, node_id))
        /\ Drew(Null, rid, Null)
        /\ last' = Done("attach", comp_id, "ok")
        /\ Sequential

\* detach: delete_reference, of any id.
Detach ==
    \E ref_id \in Ids :
        /\ Becomes(DeleteReference(Cur, ref_id))
        /\ UNCHANGED <<nextId, zeroUsed>>
        /\ last' = Done("detach", ref_id, IF ref_id \in DOMAIN refs THEN "true" ELSE "false")
        /\ Sequential

\* (mutant) the endpoint deletes without looking at reference_count.
DeleteComponentUnchecked ==
    \E comp_id \in Ids :
        /\ IF comp_id \notin DOMAIN comps
           THEN /\ Becomes(Cur)
                /\ last' = Done("delete_component", comp_id, "notfound")
           ELSE /\ Becomes([Cur EXCEPT !.c = Remove(comps, comp_id)])
                /\ last' = Done("delete_component", comp_id, "ok")
        /\ UNCHANGED <<nextId, zeroUsed>>
        /\ Sequential

\* DELETE /components/<comp_type>/<comp_id> with the component's own type.
DeleteComponentEndpoint ==
    \E comp_id \in Ids :
        /\ IF comp_id \notin DOMAIN comps
           THEN /\ Becomes(Cur)
                /\ last' = Done("delete_component", comp_id, "notfound")
           ELSE IF comps[comp_id].reference_count > 0
           THEN /\ Becomes(Cur)
                /\ last' = Done("delete_component", comp_id, "rejected")
           ELSE /\ Becomes([Cur EXCEPT !.c = Remove(comps, comp_id)])
                /\ last' = Done("delete_component", comp_id, "ok")
        /\ UNCHANGED <<nextId, zeroUsed>>
        /\ Sequential

\* POST /views
CreateView ==
    \E cid \in GenChoices("comp"), rid \in GenChoices("ref"), nid \in GenChoices("node") :
        /\ Becomes(CreateViewOp(Cur, cid, rid, nid))
        /\ Drew(nid, rid, cid)
        /\ last' = Done("create_view", nid, "ok")
        /\ Sequential

\* POST /nodes with a ref_id: the Reference must exist.  The sibling
\* pointers of the request are left null; parent_node_id is any node or null.
CreateNodeWithRef ==
    \E ref_id \in DOMAIN refs, parent \in {Null} \cup DOMAIN nodes,
       nid \in GenChoices("node") :
        /\ Truthy(ref_id)
        /\ Becomes([Cur EXCEPT !.n = Put(nodes, nid, NewNode(ref_id, parent, Null, Null))])
        /\ Drew(nid, Null, Null)
        /\ last' = Done("create_node", nid, "ok")
        /\ Sequential

\* POST /nodes with comp_id + component_type: a new Reference, then the node.
CreateNodeWithComp ==
    \E comp_id \in DOMAIN comps, parent \in {Null} \cup DOMAIN nodes,
       rid \in GenChoices("ref"), nid \in GenChoices("node") :
        /\ Truthy(comp_id)
        /\ LET d1 == CreateReferenceToComponent(Cur, rid, comp_id, NoOverrides, 0)
           IN Becomes([d1 EXCEPT !.n = Put(nodes, nid, NewNode(rid, parent, Null, Null))])
        /\ Drew(nid, rid, Null)
        /\ last' = Done("create_node", nid, "ok")
        /\ Sequential

\* POST /nodes with comp_id + component_type and no parent_node_id.
CreateRootNodeWithComp ==
    \E comp_id \in DOMAIN comps, rid \in GenChoices("ref"), nid \in GenChoices("node") :
        /\ Truthy(comp_id)
        /\ LET d1 == CreateReferenceToComponent(Cur, rid, comp_id, NoOverrides, 0)
           IN Becomes([d1 EXCEPT !.n = Put(nodes, nid, NewNode(rid, Null, Null, Null))])
        /\ Drew(nid, rid, Null)
        /\ last' = Done("create_node", nid, "ok")
        /\ Sequential

\* POST /nodes/<node_id>/children
AddChildToNode ==
    \E node_id \in DOMAIN nodes, comp_type \in ChildTypes,
       after_arg \in {Null} \cup DOMAIN nodes,
       cid \in GenChoices("comp"), rid \in GenChoices("ref"), nid \in GenChoices("node") :
        LET res == AddChild(Cur, node_id, comp_type, after_arg, cid, rid, nid)
        IN /\ Becomes(res.db)
           /\ Drew(IF res.hang THEN Null ELSE nid, rid, cid)
           /\ last' = Done("add_child", node_id, IF res.hang THEN "hang" ELSE "ok")
           /\ Sequential

\* POST /nodes/<node_id>/children with no after_node_id: a ListContainer is
\* appended at the end of the parent's children.
AppendChild ==
    \E node_id \in DOMAIN nodes,
       cid \in GenChoices("comp"), rid \in GenChoices("ref"), nid \in GenChoices("node") :
        LET res == AddChild(Cur, node_id, "ListContainer", Null, cid, rid, nid)
        IN /\ Becomes(res.db)
           /\ Drew(IF res.hang THEN Null ELSE nid, rid, cid)
           /\ last' = Done("add_child", node_id, IF res.hang THEN "hang" ELSE "ok")
           /\ Sequential

\* POST /views/<comp_id>/components
AddComponentToView ==
    \E comp_id \in DOMAIN comps, comp_type \in ChildTypes,
       after_arg \in {Null} \cup DOMAIN nodes,
       cid \in GenChoices("comp"), rid \in GenChoices("ref"), nid \in GenChoices("node") :
        /\ comps[comp_id].type = "ViewContainer"
        /\ \E owner \in OwnerChoices(Put(refs, rid, NewReference(0, cid, NoOverrides)), comp_id) :
            LET res == AddToView(Cur, comp_id, comp_type, after_arg, owner, cid, rid, nid)
            IN /\ Becomes(res.db)
               /\ Drew(IF res.hang THEN Null ELSE nid, rid, cid)
               /\ last' = Done("add_to_view", comp_id, IF res.hang THEN "hang" ELSE "ok")
               /\ Sequential

\* The record of a finished add-child: the parent (a node for add_child, a
\* ViewContainer for add_to_view), the after_node_id of the request and the
\* node created.
AddDone(op, id, ret, after_node_id, new_node_id) ==
    [op |-> op, id |-> id, ret |-> ret,
     after_node_id |-> after_node_id, new_node_id |-> new_node_id]

\* POST /nodes/<node_id>/children on a node of a Container.
AddChildAt ==
    \E node_id \in DOMAIN nodes, comp_type \in ChildTypes,
       after_arg \in {Null} \cup DOMAIN nodes,
       cid \in GenChoices("comp"), rid \in GenChoices("ref"), nid \in GenChoices("node") :
        LET res == AddChild(Cur, node_id, comp_type, after_arg, cid, rid, nid)
        IN /\ Becomes(res.db)
           /\ Drew(IF res.hang THEN Null ELSE nid, rid, cid)
           /\ last' = AddDone("add_child", node_id, IF res.hang THEN "hang" ELSE "ok",
                              after_arg, nid)
           /\ Sequential

\* POST /views/<comp_id>/components
AddToViewAt ==
    \E comp_id \in DOMAIN comps, comp_type \in ChildTypes,
       after_arg \in {Null} \cup DOMAIN nodes,
       cid \in GenChoices("comp"), rid \in GenChoices("ref"), nid \in GenChoices("node") :
        /\ comps[comp_id].type = "ViewContainer"
        /\ \E owner \in OwnerChoices(Put(refs, rid, NewReference(0, cid, NoOverrides)), comp_id) :
            LET res == AddToView(Cur, comp_id, comp_type, after_arg, owner, cid, rid, nid)
            IN /\ Becomes(res.db)
               /\ Drew(IF res.hang THEN Null ELSE nid, rid, cid)
               /\ last' = AddDone("add_to_view", comp_id, IF res.hang THEN "hang" ELSE "ok",
                                  after_arg, nid)
               /\ Sequential

\* The Nodes whose Reference leads to a Container.
ContainerNodes(db) ==
    {n \in DOMAIN db.n :
        /\ db.n[n].ref_id \in DOMAIN db.r
        /\ db.r[db.n[n].ref_id].comp_id \in DOMAIN db.c
        /\ IsContainer(db.c[db.r[db.n[n].ref_id].comp_id])}

\* The record of a finished move: its arguments and what it returned.
MoveDone(node_id, new_parent_id, after_node_id, ret) ==
    [op |-> "move", id |-> node_id, ret |-> ret,
     new_parent_id |-> new_parent_id, after_node_id |-> after_node_id]

\* PUT /nodes/<node_id>/move, while fewer than `limit` moves have been made.
MoveNodeWithin(limit) ==
    \E node_id \in Ids, new_parent_id \in {Null} \cup ContainerNodes(Cur),
       after_node_id \in {Null} \cup DOMAIN nodes :
        /\ moves < limit
        /\ moves' = moves + 1
        /\ IF node_id \in DOMAIN nodes
           THEN /\ Becomes(MoveNode(Cur, node_id, new_parent_id, after_node_id))
                /\ last' = MoveDone(node_id, new_parent_id, after_node_id, "true")
           ELSE /\ Becomes(Cur)
                /\ last' = MoveDone(node_id, new_parent_id, after_node_id, "false")
        /\ UNCHANGED <<nextId, zeroUsed, pc, loc, crashes, requests>>

\* One move among the other calls.
MoveNodeEndpoint == MoveNodeWithin(MaxMoves)

\* Moves one after another, each on what the one before left.
MoveNodeRepeatedly == MoveNodeWithin(MaxChainMoves)

\* DELETE /nodes/<node_id>: delete_node.
DeleteNodeEndpoint ==
    \E node_id \in Ids :
        /\ Becomes(DeleteNode(Cur, node_id))
        /\ last' = Done("delete_node", node_id,
                        IF DeleteNodeResult(Cur, node_id) THEN "true" ELSE "false")
        /\ UNCHANGED <<nextId, zeroUsed>>
        /\ Sequential

\* deleteSubtree: _delete_node_tree from any node id.
DeleteSubtree ==
    \E node_id \in Ids :
        LET res == DeleteNodeTree(Cur, node_id, 1)
        IN /\ Becomes(res.db)
           /\ last' = Done("delete_subtree", node_id, IF res.err THEN "error" ELSE "ok")
           /\ UNCHANGED <<nextId, zeroUsed>>
           /\ Sequential

\* DELETE /views/<comp_id>
DeleteView ==
    \E comp_id \in DOMAIN comps :
        /\ comps[comp_id].type = "ViewContainer"
        /\ \E first \in FirstChoices(refs, comp_id) :
               Becomes(DeleteViewOp(Cur, comp_id, first))
        /\ last' = Done("delete_view", comp_id, "ok")
        /\ UNCHANGED <<nextId, zeroUsed>>
        /\ Sequential

\* GET /nodes/<node_id>/resolved: resolve_node of any id.
GetNodeResolved ==
    \E node_id \in Ids :
        /\ Becomes(ResolveWrites(Cur, node_id))
        /\ last' = Done("resolve", node_id, ResolveNode(Cur, node_id, 1))
        /\ UNCHANGED <<nextId, zeroUsed>>
        /\ Sequential

\* export_metadata.py: validate_integrity on the stored graph.
ValidateIntegrityCall ==
    /\ Becomes(Cur)
    /\ last' = Done("validate", Null, ValidateIntegrity(Cur))
    /\ UNCHANGED <<nextId, zeroUsed>>
    /\ Sequential

\* ------------------------------------------- request threads, step by step
\* Each record load, save and delete takes the file lock on its own, so a
\* handler is a sequence of atomic record operations; loc[t] holds what the
\* handler has loaded so far.  An optional record is a sequence of length <= 1.
AllIdle == \A t \in Threads : pc[t] = "idle"

\* The record operations of create_reference_to_component, in program order.
AttachRefFirst == <<"save_ref", "load_comp", "save_comp">>
AttachSteps == <<"load_comp", "save_comp", "save_ref">>

\* (mutant) a delete_reference that removes the Reference before it lowers
\* the count.
DetachUnlinkFirst == <<"unlink_ref", "load_comp", "save_comp">>

\* The record operations of delete_reference after its load_reference.
DetachSteps == <<"load_comp", "save_comp", "unlink_ref">>

\* The handler of thread t returns.
Finish(t) ==
    /\ pc' = [pc EXCEPT ![t] = "idle"]
    /\ loc' = [loc EXCEPT ![t] = NoLocals]
    /\ UNCHANGED last

\* After a record operation: the next one of `steps`, or the return.
Advance(t, steps) ==
    IF loc[t].i = Len(steps)
    THEN Finish(t)
    ELSE /\ loc' = [loc EXCEPT ![t].i = @ + 1]
         /\ UNCHANGED <<pc, last>>

\* POST /references: the endpoint's own load of the component (404 when it
\* is missing), then create_reference_to_component.
StartAttach(t) ==
    /\ pc[t] = "idle"
    /\ requests < MaxRequests
    /\ requests' = requests + 1
    /\ Cardinality({u \in Threads : pc[u] = "attach"}) < Cardinality(FreeIds("ref"))
    /\ \E comp_id \in DOMAIN comps :
        /\ pc' = [pc EXCEPT ![t] = "attach"]
        /\ loc' = [loc EXCEPT ![t] = [op |-> "attach", i |-> 1, comp_id |-> comp_id,
                                      comp |-> <<>>]]
    /\ UNCHANGED <<nodes, refs, comps, nextId, zeroUsed, moves, crashes, last>>

\* One record operation of an attach in flight.
AttachStep(t) ==
    /\ pc[t] = "attach"
    /\ LET step == AttachSteps[loc[t].i]
           comp_id == loc[t].comp_id
       IN \/ /\ step = "load_comp"
             /\ loc' = [loc EXCEPT ![t].i = @ + 1,
                                   ![t].comp = IF comp_id \in DOMAIN comps
                                               THEN <<comps[comp_id]>> ELSE <<>>]
             /\ UNCHANGED <<nodes, refs, comps, nextId, zeroUsed, moves, crashes, requests, pc, last>>
          \/ /\ step = "save_comp"
             /\ comps' = IF loc[t].comp # <<>>
                         THEN Put(comps, comp_id, IncrementReferenceCount(loc[t].comp[1]))
                         ELSE comps
             /\ Advance(t, AttachSteps)
             /\ UNCHANGED <<nodes, refs, nextId, zeroUsed, moves, crashes, requests>>
          \/ /\ step = "save_ref"
             /\ \E rid \in GenChoices("ref") :
                   /\ refs' = Put(refs, rid, NewReference(0, comp_id, NoOverrides))
                   /\ Drew(Null, rid, Null)
             /\ Advance(t, AttachSteps)
             /\ UNCHANGED <<nodes, comps, moves, crashes, requests>>

\* DELETE /references/<ref_id>: delete_reference's load_reference.
StartDetach(t) ==
    /\ pc[t] = "idle"
    /\ requests < MaxRequests
    /\ requests' = requests + 1
    /\ \E ref_id \in DOMAIN refs :
        /\ pc' = [pc EXCEPT ![t] = "detach"]
        /\ loc' = [loc EXCEPT ![t] = [op |-> "detach", i |-> 1, ref_id |-> ref_id,
                                      comp_id |-> refs[ref_id].comp_id, comp |-> <<>>]]
    /\ UNCHANGED <<nodes, refs, comps, nextId, zeroUsed, moves, crashes, last>>

\* One record operation of a detach in flight.
DetachStep(t) ==
    /\ pc[t] = "detach"
    /\ LET step == DetachSteps[loc[t].i]
           comp_id == loc[t].comp_id
       IN \/ /\ step = "load_comp"
             /\ loc' = [loc EXCEPT ![t].i = @ + 1,
                                   ![t].comp = IF comp_id \in DOMAIN comps
                                               THEN <<comps[comp_id]>> ELSE <<>>]
             /\ UNCHANGED <<nodes, refs, comps, nextId, zeroUsed, moves, crashes, requests, pc, last>>
          \/ /\ step = "save_comp"
             /\ comps' = IF loc[t].comp # <<>>
                         THEN Put(comps, comp_id, DecrementReferenceCount(loc[t].comp[1]))
                         ELSE comps
             /\ Advance(t, DetachSteps)
             /\ UNCHANGED <<nodes, refs, nextId, zeroUsed, moves, crashes, requests>>
          \/ /\ step = "unlink_ref"
             /\ refs' = Remove(refs, loc[t].ref_id)
             /\ Advance(t, DetachSteps)
             /\ UNCHANGED <<nodes, comps, nextId, zeroUsed, moves, crashes, requests>>

\* DELETE /components/<type>/<comp_id>: the load and the reference_count
\* check; the thread goes on to the file delete only when the count is 0.
StartDeleteComponent(t) ==
    /\ pc[t] = "idle"
    /\ requests < MaxRequests
    /\ requests' = requests + 1
    /\ \E comp_id \in DOMAIN comps :
        /\ comps[comp_id].reference_count = 0
        /\ pc' = [pc EXCEPT ![t] = "delete_component"]
        /\ loc' = [loc EXCEPT ![t] = [op |-> "delete_component", comp_id |-> comp_id]]
    /\ UNCHANGED <<nodes, refs, comps, nextId, zeroUsed, moves, crashes, last>>

\* delete_component: the file delete.
DeleteComponentStep(t) ==
    /\ pc[t] = "delete_component"
    /\ comps' = Remove(comps, loc[t].comp_id)
    /\ Finish(t)
    /\ UNCHANGED <<nodes, refs, nextId, zeroUsed, moves, crashes, requests>>

\* POST /nodes/<node_id>/children without after_node_id, on a root node:
\* load_node of the parent, then the new Component and its Reference (records
\* no other request reads).  The ids generate_id will return to this request
\* are fixed here.
StartAddChild(t) ==
    /\ pc[t] = "idle"
    /\ requests < MaxRequests
    /\ requests' = requests + 1
    /\ \E node_id \in {n \in DOMAIN nodes : nodes[n].parent_node_id = Null},
          cid \in GenChoices("comp"), rid \in GenChoices("ref"), nid \in GenChoices("node") :
        LET d1 == [Cur EXCEPT !.c = Put(comps, cid, NewComponent("ListContainer"))]
        IN /\ Becomes(CreateReferenceToComponent(d1, rid, cid, NoOverrides, 0))
           /\ Drew(nid, rid, cid)
           /\ pc' = [pc EXCEPT ![t] = "add_child"]
           /\ loc' = [loc EXCEPT ![t] =
                        [op |-> "add_child", step |-> "load_parent_comp",
                         node_id |-> node_id, parent_ref_id |-> nodes[node_id].ref_id,
                         ref_id |-> rid, child_node_id |-> nid,
                         pcid |-> Null, parent_comp |-> <<>>, current_id |-> Null,
                         after_node_id |-> Null, next_node_id |-> Null,
                         sibling |-> <<>>]]
    /\ UNCHANGED <<moves, crashes, last>>

\* The step after the new node is saved, or after a sibling is relinked.
AfterSaveNode(l, prev_done) ==
    IF ~prev_done /\ Truthy(l.after_node_id) THEN "load_prev"
    ELSE IF Truthy(l.next_node_id) THEN "load_next"
    ELSE "save_parent_comp"

\* One record operation of an add-child in flight.
AddChildStep(t) ==
    LET l == loc[t]
        isCont == l.parent_comp # <<>> /\ IsContainer(l.parent_comp[1])
    IN /\ pc[t] = "add_child"
       /\ UNCHANGED <<refs, nextId, zeroUsed, moves, crashes, requests>>
       /\ \/ /\ l.step = "load_parent_comp"
             /\ LET pcid == IF l.parent_ref_id \in DOMAIN refs
                            THEN refs[l.parent_ref_id].comp_id ELSE Null
                    parent_comp == IF pcid \in DOMAIN comps THEN <<comps[pcid]>> ELSE <<>>
                    walks == /\ parent_comp # <<>> /\ IsContainer(parent_comp[1])
                             /\ Truthy(parent_comp[1].child_node_id)
                IN loc' = [loc EXCEPT ![t].pcid = pcid, ![t].parent_comp = parent_comp,
                              ![t].current_id = IF walks THEN parent_comp[1].child_node_id
                                                ELSE Null,
                              ![t].step = IF walks THEN "walk" ELSE "save_node"]
             /\ UNCHANGED <<nodes, comps, pc, last>>
          \/ /\ l.step = "walk"
             /\ IF l.current_id \notin DOMAIN nodes
                   \/ ~Truthy(nodes[l.current_id].next_node_id)
                THEN loc' = [loc EXCEPT ![t].after_node_id = l.current_id,
                                        ![t].step = "load_after"]
                ELSE loc' = [loc EXCEPT ![t].current_id = nodes[l.current_id].next_node_id]
             /\ UNCHANGED <<nodes, comps, pc, last>>
          \/ /\ l.step = "load_after"
             /\ loc' = [loc EXCEPT ![t].next_node_id =
                                        IF Truthy(l.after_node_id) /\ l.after_node_id \in DOMAIN nodes
                                        THEN nodes[l.after_node_id].next_node_id ELSE Null,
                                    ![t].step = "save_node"]
             /\ UNCHANGED <<nodes, comps, pc, last>>
          \/ /\ l.step = "save_node"
             /\ nodes' = Put(nodes, l.child_node_id,
                             NewNode(l.ref_id, l.node_id, l.after_node_id, l.next_node_id))
             /\ loc' = [loc EXCEPT ![t].step = AfterSaveNode(l, FALSE)]
             /\ UNCHANGED <<comps, pc, last>>
          \/ /\ l.step = "load_prev"
             /\ loc' = [loc EXCEPT ![t].sibling = IF l.after_node_id \in DOMAIN nodes
                                                  THEN <<nodes[l.after_node_id]>> ELSE <<>>,
                                    ![t].step = IF l.after_node_id \in DOMAIN nodes
                                                THEN "save_prev" ELSE AfterSaveNode(l, TRUE)]
             /\ UNCHANGED <<nodes, comps, pc, last>>
          \/ /\ l.step = "save_prev"
             /\ nodes' = Put(nodes, l.after_node_id,
                             [l.sibling[1] EXCEPT !.next_node_id = l.child_node_id])
             /\ loc' = [loc EXCEPT ![t].step = AfterSaveNode(l, TRUE)]
             /\ UNCHANGED <<comps, pc, last>>
          \/ /\ l.step = "load_next"
             /\ loc' = [loc EXCEPT ![t].sibling = IF l.next_node_id \in DOMAIN nodes
                                                  THEN <<nodes[l.next_node_id]>> ELSE <<>>,
                                    ![t].step = IF l.next_node_id \in DOMAIN nodes
                                                THEN "save_next" ELSE "save_parent_comp"]
             /\ UNCHANGED <<nodes, comps, pc, last>>
          \/ /\ l.step = "save_next"
             /\ nodes' = Put(nodes, l.next_node_id,
                             [l.sibling[1] EXCEPT !.previous_node_id = l.child_node_id])
             /\ loc' = [loc EXCEPT ![t].step = "save_parent_comp"]
             /\ UNCHANGED <<comps, pc, last>>
          \/ /\ l.step = "save_parent_comp"
             /\ comps' = IF isCont /\ ~Truthy(l.parent_comp[1].child_node_id)
                         THEN Put(comps, l.pcid,
                                  [l.parent_comp[1] EXCEPT !.child_node_id = l.child_node_id])
                         ELSE comps
             /\ pc' = [pc EXCEPT ![t] = "idle"]
             /\ loc' = [loc EXCEPT ![t] = NoLocals]
             /\ last' = AddDone("add_child", l.node_id, "ok", Null, l.child_node_id)
             /\ UNCHANGED nodes

\* The process dies inside a handler: nothing more of it is written.
Crash(t) ==
    /\ pc[t] # "idle"
    /\ crashes < MaxCrashes
    /\ crashes' = crashes + 1
    /\ Finish(t)
    /\ UNCHANGED <<nodes, refs, comps, nextId, zeroUsed, moves, requests>>

\* ------------------------------------------------------- merge_config alone
\* The configs merge_config is called with: dicts over two keys whose values
\* are scalars ([scalar |-> n]) or nested objects over the keys x and y.
ConfigKeys == {"a", "b"}
ConfigValues ==
    {[scalar |-> n] : n \in 1 .. MaxScalar}
        \cup {[x \in {"x"} |-> 1], [y \in {"y"} |-> 2], [j \in {"x", "y"} |-> 3]}
Configs == UNION {[S -> ConfigValues] : S \in SUBSET ConfigKeys}

\* A thread about to call ref.merge_config(base_config) on a Reference with
\* the given overrides.
InitMerge ==
    /\ nodes = EmptyStore /\ refs = EmptyStore /\ comps = EmptyStore
    /\ nextId = [k \in Kinds |-> 1]
    /\ zeroUsed = [k \in Kinds |-> FALSE]
    /\ moves = 0 /\ crashes = 0 /\ requests = 0
    /\ \E base_config \in Configs, overrides \in Configs :
          /\ pc = [t \in Threads |-> IF t = 1 THEN "merge_config" ELSE "idle"]
          /\ loc = [t \in Threads |->
                      IF t = 1
                      THEN [op |-> "merge_config", base_config |-> base_config,
                            overrides |-> overrides]
                      ELSE NoLocals]
    /\ last = Done("init", Null, "none")

\* The call; the arguments stay in the thread's locals.
MergeConfigCall(t) ==
    /\ pc[t] = "merge_config"
    /\ pc' = [pc EXCEPT ![t] = "idle"]
    /\ last' = Done("merge_config", t, MergeConfig(loc[t].base_config, loc[t].overrides))
    /\ UNCHANGED <<nodes, refs, comps, nextId, zeroUsed, moves, crashes, requests, loc>>

\* ------------------------------------------------------ atomic_write alone
\* The files a transaction body works on are node files: the path of node p
\* is p, the data of a file is a node record.
Paths == 1 .. MaxPaths
FileData == {NewNode(r, Null, Null, Null) : r \in 1 .. MaxScalar}
FileStates == UNION {[S -> FileData] : S \in SUBSET Paths}

\* AtomicTransaction.__init__
NewTransaction == [created_files |-> <<>>, modified_files |-> EmptyStore]

\* AtomicTransaction.track_create
TrackCreate(tx, path) == [tx EXCEPT !.created_files = Append(@, path)]

\* (mutant) track_modify that remembers the data of the latest call.
TrackModifyLatest(tx, path, original_data) ==
    [tx EXCEPT !.modified_files = Put(@, path, original_data)]

\* AtomicTransaction.track_modify: only the first call for a path is kept.
TrackModify(tx, path, original_data) ==
    IF path \notin DOMAIN tx.modified_files
    THEN [tx EXCEPT !.modified_files = Put(@, path, original_data)]
    ELSE tx

\* The loop of rollback over created_files: _delete_file on each.
RECURSIVE DeleteCreated(_, _)
DeleteCreated(files, created_files) ==
    IF created_files = <<>> THEN files
    ELSE DeleteCreated(Remove(files, Head(created_files)), Tail(created_files))

\* AtomicTransaction.rollback: the created files are deleted, then every
\* modified file is saved with its remembered data.
Rollback(tx, files) ==
    LET deleted == DeleteCreated(files, tx.created_files)
    IN [path \in (DOMAIN deleted) \cup (DOMAIN tx.modified_files) |->
          IF path \in DOMAIN tx.modified_files
          THEN tx.modified_files[path]
          ELSE deleted[path]]

\* AtomicTransaction.commit: nothing is written.
Commit(tx, files) == files

\* Thread 1 is inside `with atomic_write() as transaction:`, on any set of
\* files.  first_given remembers, for each path, the data passed to the
\* first track_modify call for it.
InitAtomic ==
    /\ nodes \in FileStates
    /\ refs = EmptyStore /\ comps = EmptyStore
    /\ nextId = [k \in Kinds |-> 1]
    /\ zeroUsed = [k \in Kinds |-> FALSE]
    /\ moves = 0 /\ crashes = 0 /\ requests = 0
    /\ pc = [t \in Threads |-> IF t = 1 THEN "body" ELSE "idle"]
    /\ loc = [t \in Threads |->
                IF t = 1
                THEN [op |-> "atomic_write", transaction |-> NewTransaction,
                      first_given |-> EmptyStore, steps |-> 0]
                ELSE NoLocals]
    /\ last = Done("init", Null, "none")

\* One more statement of the body.
BodyStep(t) ==
    /\ pc[t] = "body"
    /\ loc[t].steps < MaxBodySteps

AtomicFrame == UNCHANGED <<refs, comps, nextId, zeroUsed, moves, crashes, requests>>

\* The body saves a file.
BodySave(t) ==
    /\ BodyStep(t)
    /\ \E path \in Paths, data \in FileData : nodes' = Put(nodes, path, data)
    /\ loc' = [loc EXCEPT ![t].steps = @ + 1]
    /\ UNCHANGED <<pc, last>>
    /\ AtomicFrame

\* The body calls transaction.track_create(path), once for a path.
BodyTrackCreate(t) ==
    /\ BodyStep(t)
    /\ \E path \in Paths :
          /\ \A i \in DOMAIN loc[t].transaction.created_files :
                loc[t].transaction.created_files[i] # path
          /\ loc' = [loc EXCEPT ![t].transaction = TrackCreate(@, path),
                                ![t].steps = @ + 1]
    /\ UNCHANGED <<nodes, pc, last>>
    /\ AtomicFrame

\* The body calls transaction.track_modify(path, original_data).
BodyTrackModify(t) ==
    /\ BodyStep(t)
    /\ \E path \in Paths, original_data \in FileData :
          loc' = [loc EXCEPT
                    ![t].transaction = TrackModify(@, path, original_data),
                    ![t].first_given = IF path \in DOMAIN @ THEN @
                                       ELSE Put(@, path, original_data),
                    ![t].steps = @ + 1]
    /\ UNCHANGED <<nodes, pc, last>>
    /\ AtomicFrame

\* The body raises: the except branch rolls back and re-raises.
BodyRaises(t) ==
    /\ pc[t] = "body"
    /\ nodes' = Rollback(loc[t].transaction, nodes)
    /\ pc' = [pc EXCEPT ![t] = "idle"]
    /\ last' = Done("atomic_write", t, "raised")
    /\ UNCHANGED loc
    /\ AtomicFrame

\* The body ends: commit.
BodyReturns(t) ==
    /\ pc[t] = "body"
    /\ nodes' = Commit(loc[t].transaction, nodes)
    /\ pc' = [pc EXCEPT ![t] = "idle"]
    /\ last' = Done("atomic_write", t, "returned")
    /\ UNCHANGED loc
    /\ AtomicFrame

\* ------------------------------------------------------- the file lock alone
\* The four record operations (_load_json, _save_json, _delete_file,
\* _list_json_files) statement by statement, each inside `with _file_lock:`.
\* The directory is `nodes`: path p is the file p.json, TmpPath(p) the file
\* p.json.tmp that _save_json writes and renames.  loc[t].holds: thread t
\* holds _file_lock; loc[t].got: the text that read_text handed to json.loads.
TmpPath(path) == path + MaxPaths

\* The content of a file that write_text has opened and not finished.
Partial == [partial |-> TRUE]

RecordCalls == {"load", "save", "delete", "list"}

\* (mutant) no mutual exclusion: the lock is always granted.
LockIgnored == TRUE

\* threading.Lock: it can be acquired when no thread holds it.
LockFree == \A u \in Threads : ~loc[u].holds

\* The locals of a thread outside a record operation.
IdleLocals ==
    [op |-> "record_ops", holds |-> FALSE, call |-> "none",
     path |-> Null, data |-> Partial, got |-> <<>>, listing |-> {}]

InitLock ==
    /\ nodes = EmptyStore /\ refs = EmptyStore /\ comps = EmptyStore
    /\ nextId = [k \in Kinds |-> 1]
    /\ zeroUsed = [k \in Kinds |-> FALSE]
    /\ moves = 0 /\ crashes = 0 /\ requests = 0
    /\ pc = [t \in Threads |-> "idle"]
    /\ loc = [t \in Threads |-> IdleLocals]
    /\ last = Done("init", Null, "none")

LockFrame == UNCHANGED <<refs, comps, nextId, zeroUsed, moves, crashes, last>>

\* A handler calls one more record operation; the lock is not held between
\* two of them.
CallRecordOp(t) ==
    /\ pc[t] = "idle"
    /\ requests < MaxRequests
    /\ requests' = requests + 1
    /\ \E call \in RecordCalls, path \in Paths, data \in FileData :
          loc' = [loc EXCEPT ![t].call = call, ![t].path = path, ![t].data = data]
    /\ pc' = [pc EXCEPT ![t] = "acquire"]
    /\ UNCHANGED nodes
    /\ LockFrame

\* `with _file_lock:` entered: blocks until the lock is free.
AcquireLock(t) ==
    /\ pc[t] = "acquire"
    /\ LockFree
    /\ loc' = [loc EXCEPT ![t].holds = TRUE]
    /\ pc' = [pc EXCEPT ![t] =
                 IF loc[t].call = "load" THEN "load_exists"
                 ELSE IF loc[t].call = "save" THEN "save_open"
                 ELSE IF loc[t].call = "delete" THEN "delete_exists"
                 ELSE "list_glob"]
    /\ UNCHANGED <<nodes, requests>>
    /\ LockFrame

\* One statement inside the with block of the operation in progress.
RecordOpStatement(t) ==
    LET path == loc[t].path
        tmp == TmpPath(loc[t].path)
    IN /\ UNCHANGED requests
       /\ LockFrame
       /\ \/ /\ pc[t] = "load_exists"
             /\ pc' = [pc EXCEPT ![t] = IF path \in DOMAIN nodes THEN "load_read" ELSE "release"]
             /\ loc' = [loc EXCEPT ![t].got = <<>>]
             /\ UNCHANGED nodes
          \/ /\ pc[t] = "load_read"
             /\ pc' = [pc EXCEPT ![t] = "release"]
             /\ loc' = [loc EXCEPT ![t].got =
                           IF path \in DOMAIN nodes THEN <<nodes[path]>> ELSE <<>>]
             /\ UNCHANGED nodes
          \/ /\ pc[t] = "save_open"
             /\ pc' = [pc EXCEPT ![t] = "save_write"]
             /\ nodes' = Put(nodes, tmp, Partial)
             /\ UNCHANGED loc
          \/ /\ pc[t] = "save_write"
             /\ pc' = [pc EXCEPT ![t] = "save_rename"]
             /\ nodes' = Put(nodes, tmp, loc[t].data)
             /\ UNCHANGED loc
          \/ /\ pc[t] = "save_rename"
             /\ pc' = [pc EXCEPT ![t] = "release"]
             /\ nodes' = IF tmp \in DOMAIN nodes
                         THEN Put(Remove(nodes, tmp), path, nodes[tmp])
                         ELSE nodes
             /\ UNCHANGED loc
          \/ /\ pc[t] = "delete_exists"
             /\ pc' = [pc EXCEPT ![t] = IF path \in DOMAIN nodes THEN "delete_unlink" ELSE "release"]
             /\ UNCHANGED <<nodes, loc>>
          \/ /\ pc[t] = "delete_unlink"
             /\ pc' = [pc EXCEPT ![t] = "release"]
             /\ nodes' = Remove(nodes, path)
             /\ UNCHANGED loc
          \/ /\ pc[t] = "list_glob"
             /\ pc' = [pc EXCEPT ![t] = "release"]
             /\ loc' = [loc EXCEPT ![t].listing = (DOMAIN nodes) \cap Paths]
             /\ UNCHANGED nodes

\* The with block is left: the lock is released and the result returned.
ReleaseLock(t) ==
    /\ pc[t] = "release"
    /\ loc' = [loc EXCEPT ![t] = IdleLocals]
    /\ pc' = [pc EXCEPT ![t] = "idle"]
    /\ UNCHANGED <<nodes, requests>>
    /\ LockFrame

\* ------------------------------------------------ records and their files
\* save_node, save_reference and save_component with the entity classes'
\* to_dict and from_dict, timestamps included.  A file holds the dict that
\* to_dict built (json.dumps and json.loads keep ints, strings, None, lists
\* and string-keyed dicts as they are).  Timestamps are clock readings.
Timestamps == 0 .. MaxScalar

\* dict.get(key, default)
Get(data, key, default) == IF key \in DOMAIN data THEN data[key] ELSE default

\* Entity.update_timestamp with the clock reading `now`.
UpdateTimestamp(entity, now) == [entity EXCEPT !.updated_at = now]

NodeToDict(node) ==
    [node_id |-> node.node_id, ref_id |-> node.ref_id,
     parent_node_id |-> node.parent_node_id,
     previous_node_id |-> node.previous_node_id,
     next_node_id |-> node.next_node_id,
     created_at |-> node.created_at, updated_at |-> node.updated_at]

NodeFromDict(data, now) ==
    [node_id |-> data.node_id, ref_id |-> data.ref_id,
     parent_node_id |-> Get(data, "parent_node_id", Null),
     previous_node_id |-> Get(data, "previous_node_id", Null),
     next_node_id |-> Get(data, "next_node_id", Null),
     created_at |-> Get(data, "created_at", now),
     updated_at |-> Get(data, "updated_at", now)]

ReferenceToDict(ref) ==
    [ref_id |-> ref.ref_id, node_id |-> ref.node_id, comp_id |-> ref.comp_id,
     overrides |-> ref.overrides,
     created_at |-> ref.created_at, updated_at |-> ref.updated_at]

ReferenceFromDict(data, now) ==
    [ref_id |-> data.ref_id, node_id |-> data.node_id, comp_id |-> data.comp_id,
     overrides |-> Get(data, "overrides", <<>>),
     created_at |-> Get(data, "created_at", now),
     updated_at |-> Get(data, "updated_at", now)]

\* ViewContainer.to_dict: the variant's fields and child_node_id go under
\* 'config'.
ViewContainerToDict(view) ==
    [comp_id |-> view.comp_id, type |-> view.type,
     reference_count |-> view.reference_count,
     created_at |-> view.created_at, updated_at |-> view.updated_at,
     config |-> [path |-> view.path, description |-> view.description,
                 tag_ids |-> view.tag_ids, child_node_id |-> view.child_node_id]]

ViewContainerFromDict(data, now) ==
    LET config == Get(data, "config", [k \in {} |-> 0])
    IN [comp_id |-> data.comp_id, type |-> "ViewContainer",
        reference_count |-> Get(data, "reference_count", 0),
        created_at |-> Get(data, "created_at", now),
        updated_at |-> Get(data, "updated_at", now),
        path |-> Get(config, "path", ""),
        description |-> Get(config, "description", Null),
        tag_ids |-> Get(config, "tag_ids", <<>>),
        child_node_id |-> Get(config, "child_node_id", Null)]

\* The entities handed to save_*: overrides is None (<<>>) or a dict
\* (<<dict>>), optional pointers are None (Null) or an id.
OptionalIds == {Null, 1}
NodeEntities ==
    [node_id : {1}, ref_id : {1}, parent_node_id : OptionalIds,
     previous_node_id : OptionalIds, next_node_id : OptionalIds,
     created_at : Timestamps, updated_at : Timestamps]
ReferenceEntities ==
    [ref_id : {1}, node_id : {1}, comp_id : {1},
     overrides : {<<>>, <<NoOverrides>>, <<[title |-> 1]>>},
     created_at : Timestamps, updated_at : Timestamps]
ViewContainerEntities ==
    [comp_id : {1}, type : {"ViewContainer"}, reference_count : {0, 1},
     path : {"", "/about"}, description : {Null}, tag_ids : {<<>>, <<1>>},
     child_node_id : OptionalIds,
     created_at : Timestamps, updated_at : Timestamps]

\* A record of one kind was built; position "built".
InitRoundTrip ==
    /\ nodes = EmptyStore /\ refs = EmptyStore /\ comps = EmptyStore
    /\ nextId = [k \in Kinds |-> 2]
    /\ zeroUsed = [k \in Kinds |-> FALSE]
    /\ moves = 0 /\ crashes = 0 /\ requests = 0
    /\ pc = [t \in Threads |-> IF t = 1 THEN "built" ELSE "idle"]
    /\ \E kind \in Kinds :
         \E x \in (IF kind = "node" THEN NodeEntities
                    ELSE IF kind = "ref" THEN ReferenceEntities
                    ELSE ViewContainerEntities) :
            /\ x.created_at <= x.updated_at
            /\ loc = [t \in Threads |-> [op |-> "round_trip", kind |-> kind, x |-> x]]
    /\ last = Done("init", Null, "none")

RoundTripFrame == UNCHANGED <<nextId, zeroUsed, moves, crashes, requests, loc>>

\* save_node: update_timestamp, to_dict, _save_json.
SaveNodeEntity ==
    /\ pc[1] = "built" /\ loc[1].kind = "node"
    /\ \E now \in Timestamps :
          /\ now >= loc[1].x.updated_at
          /\ nodes' = Put(nodes, loc[1].x.node_id,
                           NodeToDict(UpdateTimestamp(loc[1].x, now)))
    /\ pc' = [pc EXCEPT ![1] = "saved"]
    /\ UNCHANGED <<refs, comps, last>>
    /\ RoundTripFrame

\* save_reference
SaveReferenceEntity ==
    /\ pc[1] = "built" /\ loc[1].kind = "ref"
    /\ \E now \in Timestamps :
          /\ now >= loc[1].x.updated_at
          /\ refs' = Put(refs, loc[1].x.ref_id,
                          ReferenceToDict(UpdateTimestamp(loc[1].x, now)))
    /\ pc' = [pc EXCEPT ![1] = "saved"]
    /\ UNCHANGED <<nodes, comps, last>>
    /\ RoundTripFrame

\* save_component
SaveComponentEntity ==
    /\ pc[1] = "built" /\ loc[1].kind = "comp"
    /\ \E now \in Timestamps :
          /\ now >= loc[1].x.updated_at
          /\ comps' = Put(comps, loc[1].x.comp_id,
                           ViewContainerToDict(UpdateTimestamp(loc[1].x, now)))
    /\ pc' = [pc EXCEPT ![1] = "saved"]
    /\ UNCHANGED <<nodes, refs, last>>
    /\ RoundTripFrame

\* load_node, load_reference or load_component right after the save.
LoadEntity ==
    /\ pc[1] = "saved"
    /\ \E now \in Timestamps :
         last' = Done("load_entity", 1,
                      IF loc[1].kind = "node" THEN NodeFromDict(nodes[1], now)
                      ELSE IF loc[1].kind = "ref" THEN ReferenceFromDict(refs[1], now)
                      ELSE ViewContainerFromDict(comps[1], now))
    /\ pc' = [pc EXCEPT ![1] = "loaded"]
    /\ UNCHANGED <<nodes, refs, comps>>
    /\ RoundTripFrame

\* ---------------------------------------------------------- specifications
\* The reference layer alone: components, attach, detach, component delete.
NextRef == CreateComponent \/ Attach \/ Detach \/ DeleteComponentEndpoint
SpecRef == Init /\ [][NextRef]_vars

\* The node tree, one call at a time.
Next ==
    \/ CreateView
    \/ AddChildToNode
    \/ MoveNodeEndpoint
    \/ DeleteSubtree
Spec == Init /\ [][Next]_vars

\* Trees with pointers left dangling by the shallow delete and by detach.
NextDangling == CreateView \/ AddChildToNode \/ DeleteNodeEndpoint \/ Detach
SpecDangling == Init /\ [][NextDangling]_vars

\* Components with and without a Reference and a Node, and their delete.
NextDelete ==
    \/ CreateView
    \/ CreateComponent
    \/ Detach
    \/ DeleteComponentEndpoint
SpecDelete == Init /\ [][NextDelete]_vars

\* merge_config on every pair of configs.
NextMerge == \E t \in Threads : MergeConfigCall(t)
SpecMerge == InitMerge /\ [][NextMerge]_vars

\* Attaches to one Component that interleave (and lose increments), detaches
\* one at a time.
NextDrift ==
    \/ CreateComponent /\ comps = EmptyStore
    \/ \E t \in Threads : StartAttach(t)
    \/ \E t \in Threads : AttachStep(t)
    \/ Detach /\ AllIdle
SpecDrift == Init /\ [][NextDrift]_vars

\* Trees grown by appending, and the shallow delete.
NextShallow == CreateView \/ AppendChild \/ DeleteNodeEndpoint
SpecShallow == Init /\ [][NextShallow]_vars

\* Graphs that trees, shallow deletes, detaches, view deletes and interleaved
\* attaches leave, and the validator run on them.
NextValidate ==
    \/ CreateView /\ AllIdle
    \/ AppendChild /\ AllIdle
    \/ DeleteNodeEndpoint /\ AllIdle
    \/ Detach /\ AllIdle
    \/ DeleteView /\ AllIdle
    \/ \E t \in Threads : StartAttach(t)
    \/ \E t \in Threads : AttachStep(t)
    \/ ValidateIntegrityCall /\ AllIdle
SpecValidate == Init /\ [][NextValidate]_vars

\* Child chains built by the two add-child handlers and rearranged by moves.
NextChain ==
    \/ CreateView
    \/ AddChildToNode
    \/ AddComponentToView
    \/ MoveNodeEndpoint
SpecChain == Init /\ [][NextChain]_vars

\* One atomic_write scope, its body and its two exits.
NextAtomic ==
    \E t \in Threads :
        \/ BodySave(t)
        \/ BodyTrackCreate(t)
        \/ BodyTrackModify(t)
        \/ BodyRaises(t)
        \/ BodyReturns(t)
SpecAtomic == InitAtomic /\ [][NextAtomic]_vars

\* Trees, nodes that share a Component, the view delete that leaves a Node
\* without its Reference or a Reference without its Component, and
\* resolve_node on what they leave.
NextResolve ==
    \/ CreateView
    \/ CreateRootNodeWithComp
    \/ AppendChild
    \/ DeleteView
    \/ GetNodeResolved
SpecResolve == Init /\ [][NextResolve]_vars

\* A view with two appended children, as POST /views and two POST
\* /nodes/1/children leave it, then rearranged by moves, cyclic chains
\* included, and walked by resolve_node and _delete_node_tree.
ViewWithTwoChildren ==
    LET d1 == CreateViewOp(DB(EmptyStore, EmptyStore, EmptyStore), 1, 1, 1)
        d2 == AddChild(d1, 1, "ListContainer", Null, 2, 2, 2).db
    IN AddChild(d2, 1, "ListContainer", Null, 3, 3, 3).db

InitCycle ==
    /\ nodes = ViewWithTwoChildren.n
    /\ refs = ViewWithTwoChildren.r
    /\ comps = ViewWithTwoChildren.c
    /\ nextId = [k \in Kinds |-> 4]
    /\ zeroUsed = [k \in Kinds |-> FALSE]
    /\ moves = 0 /\ crashes = 0 /\ requests = 0
    /\ pc = [t \in Threads |-> "idle"]
    /\ loc = [t \in Threads |-> NoLocals]
    /\ last = Done("init", Null, "none")

NextCycle ==
    \/ MoveNodeRepeatedly
    \/ GetNodeResolved
    \/ DeleteSubtree
SpecCycle == InitCycle /\ [][NextCycle]_vars

\* Threads that call record operations one after another.
NextLock ==
    \E t \in Threads :
        \/ CallRecordOp(t)
        \/ AcquireLock(t)
        \/ RecordOpStatement(t)
        \/ ReleaseLock(t)
SpecLock == InitLock /\ [][NextLock]_vars

\* One record of any kind saved and loaded again.
NextRoundTrip ==
    SaveNodeEntity \/ SaveReferenceEntity \/ SaveComponentEntity \/ LoadEntity
SpecRoundTrip == InitRoundTrip /\ [][NextRoundTrip]_vars

\* Views and the children added to them by the two add-child handlers.
NextAdd == CreateView \/ AddChildAt \/ AddToViewAt
SpecAdd == Init /\ [][NextAdd]_vars

\* Views with appended children, and the view delete endpoint.
NextDeleteView == CreateView \/ AppendChild \/ DeleteView
SpecDeleteView == Init /\ [][NextDeleteView]_vars

\* One Component, whole attaches, and one detach at a time, step by step,
\* with a crash at any point inside it.
NextUnder ==
    \/ CreateComponent /\ comps = EmptyStore /\ AllIdle
    \/ Attach /\ AllIdle
    \/ \E t \in Threads : StartDetach(t) /\ AllIdle
    \/ \E t \in Threads : DetachStep(t)
    \/ \E t \in Threads : Crash(t)
SpecUnder == Init /\ [][NextUnder]_vars

\* One view, and add-child requests on its root node interleaved at every
\* record operation.
InitOneView ==
    LET d1 == CreateViewOp(DB(EmptyStore, EmptyStore, EmptyStore), 1, 1, 1)
    IN /\ nodes = d1.n /\ refs = d1.r /\ comps = d1.c
       /\ nextId = [k \in Kinds |-> 2]
       /\ zeroUsed = [k \in Kinds |-> FALSE]
       /\ moves = 0 /\ crashes = 0 /\ requests = 0
       /\ pc = [t \in Threads |-> "idle"]
       /\ loc = [t \in Threads |-> NoLocals]
       /\ last = Done("create_view", 1, "ok")
NextTwoAdds ==
    \/ \E t \in Threads : StartAddChild(t)
    \/ \E t \in Threads : AddChildStep(t)
SpecTwoAdds == InitOneView /\ [][NextTwoAdds]_vars

\* The node-creating operations.
NextCreate ==
    \/ CreateComponent
    \/ CreateView
    \/ CreateNodeWithRef
    \/ CreateNodeWithComp
    \/ AddChildToNode
    \/ AddComponentToView
SpecCreate == Init /\ [][NextCreate]_vars

\* One attach at a time, step by step, with a crash at any point inside it;
\* detach as a whole call between two attaches.
NextCrash ==
    \/ CreateComponent /\ AllIdle
    \/ Detach /\ AllIdle
    \/ \E t \in Threads : StartAttach(t) /\ AllIdle
    \/ \E t \in Threads : AttachStep(t)
    \/ \E t \in Threads : Crash(t)
SpecCrash == Init /\ [][NextCrash]_vars

\* Request threads interleaved at every record operation.
NextConc ==
    \/ CreateComponent /\ AllIdle
    \/ \E t \in Threads : StartAttach(t)
    \/ \E t \in Threads : AttachStep(t)
    \/ \E t \in Threads : StartDetach(t)
    \/ \E t \in Threads : DetachStep(t)
    \/ \E t \in Threads : StartDeleteComponent(t)
    \/ \E t \in Threads : DeleteComponentStep(t)
SpecConc == Init /\ [][NextConc]_vars

\* ------------------------------------------------- what the claims speak of
\* A pointer is set when it is not null (0 is an id like any other).
IsSet(x) == x # Null

\* The component a stored node leads to, as <<comp_id>>, or <<>> when its
\* Reference or Component has no record.
CompOfNode(db, n) ==
    IF n \in DOMAIN db.n /\ db.n[n].ref_id \in DOMAIN db.r
       /\ db.r[db.n[n].ref_id].comp_id \in DOMAIN db.c
    THEN <<db.r[db.n[n].ref_id].comp_id>>
    ELSE <<>>

\* The child_node_id of the Container a node leads to, Null when there is none.
ChildPointer(db, n) ==
    LET c == CompOfNode(db, n)
    IN IF c # <<>> /\ IsContainer(db.c[c[1]]) THEN db.c[c[1]].child_node_id ELSE Null

\* The stored nodes reached from `id` by following next_node_id until null
\* (or until an id without a record), at most `fuel` of them.
RECURSIVE ChainFrom(_, _, _)
ChainFrom(ns, id, fuel) ==
    IF ~IsSet(id) \/ id \notin DOMAIN ns \/ fuel = 0 THEN <<>>
    ELSE <<id>> \o ChainFrom(ns, ns[id].next_node_id, fuel - 1)

\* The chain is finite: it ends within the stored nodes.
ChainEnds(ns, id) == Len(ChainFrom(ns, id, Cardinality(DOMAIN ns) + 1)) <= Cardinality(DOMAIN ns)

\* The node ids of a resolved children list.
ChildIds(resolved) == [i \in DOMAIN resolved.children |-> resolved.children[i].node_id]

Resolve(db, n) == ResolveNode(db, n, 1)

SiblingSymmetry(ns) ==
    \A a \in DOMAIN ns :
        LET b == ns[a].next_node_id
        IN (IsSet(b) /\ b \in DOMAIN ns) => ns[b].previous_node_id = a

\* C2: the sibling chains are symmetric after a move, also after the move of
\* a node after itself (here: of a node y that has a previous and a next
\* sibling, in a store whose chains were symmetric).
C2_SiblingSymmetry ==
    [][\A y \in DOMAIN nodes, p \in {Null} \cup DOMAIN nodes :
          (/\ SiblingSymmetry(nodes)
           /\ Truthy(nodes[y].previous_node_id) /\ nodes[y].previous_node_id \in DOMAIN nodes
           /\ Truthy(nodes[y].next_node_id) /\ nodes[y].next_node_id \in DOMAIN nodes
           /\ last'.op = "move" /\ last'.id = y
           /\ nodes' = MoveNode(Cur, y, p, y).n)
          => SiblingSymmetry(nodes')
      ]_vars

\* C3: a resolved node's children are exactly the nodes of the chain from its
\* Container's child_node_id, in chain order; no Container or a null
\* child_node_id gives no children.
C3_ChildrenAreTheChain ==
    \A n \in DOMAIN nodes :
        LET r == Resolve(Cur, n)
            head == ChildPointer(Cur, n)
        IN (r.status = "ok" /\ ChainEnds(nodes, head))
              => ChildIds(r) = ChainFrom(nodes, head, Cardinality(DOMAIN nodes))

\* C4: a move with after_node_id = null of a child y of the Container of node
\* p, to parent p, makes y the first resolved child of p and keeps the others
\* in their order.
C4_MoveToFront ==
    [][\A y \in DOMAIN nodes, p \in DOMAIN nodes :
          LET before == Resolve(Cur, p)
              after == Resolve(DB(nodes', refs', comps'), p)
          IN (/\ last'.op = "move" /\ last'.id = y
              /\ nodes' = MoveNode(Cur, y, p, Null).n
              /\ before.status = "ok"
              /\ \E i \in DOMAIN before.children : before.children[i].node_id = y)
             => (/\ after.status = "ok"
                 /\ ChildIds(after) = <<y>> \o SelectSeq(ChildIds(before), LAMBDA x : x # y))
      ]_vars

\* The nodes deleteSubtree(n) is to remove: n, every node reached by
\* next_node_id, and the chain of every Container among them, recursively.
RECURSIVE SubtreeClosure(_, _, _)
SubtreeClosure(db, S, fuel) ==
    LET more == {db.n[x].next_node_id : x \in S} \cup {ChildPointer(db, x) : x \in S}
        T == S \cup (more \cap DOMAIN db.n)
    IN IF T = S \/ fuel = 0 THEN S ELSE SubtreeClosure(db, T, fuel - 1)

SubtreeOf(db, n) == SubtreeClosure(db, {n}, Cardinality(DOMAIN db.n))

\* C5: deleteSubtree(n) removes exactly the subtree's Nodes and their
\* References, and lowers each Component's count by one per removed Reference.
C5_DeleteSubtree ==
    [][\A n \in DOMAIN nodes :
          LET S == SubtreeOf(Cur, n)
              R == {nodes[x].ref_id : x \in S} \cap DOMAIN refs
          IN (last'.op = "delete_subtree" /\ last'.id = n)
             => (/\ DOMAIN nodes' = (DOMAIN nodes) \ S
                 /\ DOMAIN refs' = (DOMAIN refs) \ R
                 /\ \A c \in DOMAIN comps :
                       /\ c \in DOMAIN comps'
                       /\ comps'[c].reference_count =
                            comps[c].reference_count
                              - Cardinality({r \in R : refs[r].comp_id = c}))
      ]_vars

\* The ids the walk of resolve_node(n) goes through below n: the child
\* pointer of every Container on the way and the next pointer of every child.
RECURSIVE WalkClosure(_, _, _)
WalkClosure(db, W, fuel) ==
    LET here == W \cap DOMAIN db.n
        more == {db.n[x].next_node_id : x \in here} \cup {ChildPointer(db, x) : x \in here}
        T == W \cup {x \in more : IsSet(x)}
    IN IF T = W \/ fuel = 0 THEN W ELSE WalkClosure(db, T, fuel - 1)

Walked(db, n) ==
    IF IsSet(ChildPointer(db, n))
    THEN WalkClosure(db, {ChildPointer(db, n)}, Cardinality(Ids) + 1)
    ELSE {}

\* A pointer dangles below n: a walked id has no Node, or its Node has no
\* Reference, or its Reference has no Component.
DanglesBelow(db, n) == \E x \in Walked(db, n) : CompOfNode(db, x) = <<>>

\* C6: when a pointer dangles at any hop below the root, resolve_node returns
\* NotFound for the root, not a tree.
C6_DanglingIsNotFound ==
    \A n \in DOMAIN nodes :
        DanglesBelow(Cur, n) => Resolve(Cur, n).status = "notfound"

\* C7: in every state of an attach, also after a crash inside it, no
\* Component's reference_count is below the number of persisted References
\* that point to it.
C7_NeverUnderCounted ==
    \A c \in DOMAIN comps : comps[c].reference_count >= Cardinality(RefsTo(refs, c))

\* C7 witness: a crash inside an attach left a Component over-counted.
C7_Witness ==
    /\ crashes > 0 /\ AllIdle
    /\ \E c \in DOMAIN comps :
          /\ comps[c].reference_count > Cardinality(RefsTo(refs, c))
          /\ Cardinality(RefsTo(refs, c)) > 0

\* C8: once every concurrent attach and detach has returned, every
\* Component's reference_count equals the number of References pointing to it.
C8_NoLostUpdate ==
    AllIdle =>
        \A c \in DOMAIN comps : comps[c].reference_count = Cardinality(RefsTo(refs, c))

\* C9: every Node's ref_id names a Reference whose node_id is that Node, and
\* no two Nodes share a ref_id.
C9_NodeReferenceOneToOne ==
    /\ \A n \in DOMAIN nodes :
          /\ nodes[n].ref_id \in DOMAIN refs
          /\ refs[nodes[n].ref_id].node_id = n
    /\ \A n, m \in DOMAIN nodes : nodes[n].ref_id = nodes[m].ref_id => n = m

\* C10: every persisted Reference's comp_id has a Component record.
C10_ReferenceHasComponent ==
    \A r \in DOMAIN refs : refs[r].comp_id \in DOMAIN comps

\* C11: the component delete endpoint rejects a Component whose stored
\* reference_count is above 0 and then changes no Component, Reference or
\* Node; it removes a Component only when its reference_count is 0.
C11_DeleteRejectedWhileReferenced ==
    [][\A c \in DOMAIN comps :
          (last'.op = "delete_component" /\ last'.id = c)
          => IF comps[c].reference_count > 0
             THEN /\ last'.ret = "rejected"
                  /\ comps' = comps /\ refs' = refs /\ nodes' = nodes
             ELSE /\ last'.ret = "ok"
                  /\ comps' = Remove(comps, c) /\ refs' = refs /\ nodes' = nodes
      ]_vars

\* C11 witness: a delete request was just rejected for a Component that has
\* a Reference and a Node.
C11_Witness ==
    /\ last.op = "delete_component" /\ last.ret = "rejected"
    /\ last.id \in DOMAIN comps
    /\ comps[last.id].reference_count > 0
    /\ \E n \in DOMAIN nodes : CompOfNode(Cur, n) = <<last.id>>

\* C12: merge_config is a shallow key-wise override: the result has exactly
\* the keys of the base config and of the overrides, a key of the overrides
\* carries the overrides' value whole (a nested object is replaced, not
\* merged), any other key carries the base value, and with empty overrides
\* the result is the base config.
C12_MergeIsShallow ==
    \A t \in Threads :
        (last.op = "merge_config" /\ last.id = t) =>
            LET base_config == loc[t].base_config
                overrides == loc[t].overrides
                merged == last.ret
            IN /\ DOMAIN merged = (DOMAIN base_config) \cup (DOMAIN overrides)
               /\ \A k \in DOMAIN overrides : merged[k] = overrides[k]
               /\ \A k \in (DOMAIN base_config) \ (DOMAIN overrides) : merged[k] = base_config[k]
               /\ (DOMAIN overrides = {} => merged = base_config)

\* C12 witness: merge({a: {x: 1}, b: 2}, {a: {y: 2}}) returned {a: {y: 2}, b: 2}.
C12_Witness ==
    /\ last.op = "merge_config"
    /\ loc[1].base_config = [k \in {"a", "b"} |->
                                IF k = "a" THEN [x \in {"x"} |-> 1] ELSE [scalar |-> 2]]
    /\ loc[1].overrides = [k \in {"a"} |-> [y \in {"y"} |-> 2]]
    /\ last.ret = [k \in {"a", "b"} |->
                      IF k = "a" THEN [y \in {"y"} |-> 2] ELSE [scalar |-> 2]]

\* C13: no reference_count is ever negative; a detach of a stored Reference
\* removes it and returns true, lowering its Component's count by one but
\* not below 0 and changing nothing else; a detach of an id with no
\* Reference returns false and changes no record.
C13_CountNeverNegative ==
    [][/\ \A c \in DOMAIN comps' : comps'[c].reference_count >= 0
       /\ \A r \in Ids :
             (last'.op = "detach" /\ last'.id = r /\ UNCHANGED <<pc, loc>>)
             => IF r \in DOMAIN refs
                THEN /\ last'.ret = "true"
                     /\ refs' = Remove(refs, r)
                     /\ nodes' = nodes
                     /\ DOMAIN comps' = DOMAIN comps
                     /\ \A c \in DOMAIN comps :
                           comps'[c] =
                             IF c = refs[r].comp_id /\ comps[c].reference_count > 0
                             THEN [comps[c] EXCEPT !.reference_count = @ - 1]
                             ELSE comps[c]
                ELSE /\ last'.ret = "false"
                     /\ refs' = refs /\ nodes' = nodes /\ comps' = comps
      ]_vars

\* C13 witness: a detach returned true and a Component with reference_count
\* 0 still has a Reference (increments were lost), so that the next detach
\* meets the floor.
C13_Witness ==
    /\ last.op = "detach" /\ last.ret = "true" /\ AllIdle
    /\ \E c \in DOMAIN comps :
          comps[c].reference_count = 0 /\ RefsTo(refs, c) # {}

\* The step is delete_node(n).
DeleteNodeStep(n) == last'.op = "delete_node" /\ last'.id = n

\* What a detach of Reference r leaves of the Components of cs.
AfterDetach(cs, rs, r) ==
    [c \in DOMAIN cs |->
        IF c = rs[r].comp_id /\ cs[c].reference_count > 0
        THEN [cs[c] EXCEPT !.reference_count = @ - 1]
        ELSE cs[c]]

\* C14: delete_node on an existing Node whose Reference exists removes the
\* Node, removes the Reference and decrements the Component's count, whatever
\* the node's ref_id is (0 included), and returns true; on an id with no Node
\* it returns false and changes nothing.
C14_DeleteNodeRemovesReference ==
    [][\A n \in Ids :
         DeleteNodeStep(n) =>
            IF n \notin DOMAIN nodes
            THEN last'.ret = "false" /\ nodes' = nodes /\ refs' = refs /\ comps' = comps
            ELSE nodes[n].ref_id \in DOMAIN refs =>
                   /\ last'.ret = "true"
                   /\ nodes' = Remove(nodes, n)
                   /\ refs' = Remove(refs, nodes[n].ref_id)
                   /\ comps' = AfterDetach(comps, refs, nodes[n].ref_id)
      ]_vars

\* C15: delete_node(n) changes no other Node record and no Reference but
\* n's, and of the Components only the reference_count of the one n's
\* Reference points to: no child_node_id changes, so the pointers to n that
\* neighbours or a Container hold stay as they were.
C15_ShallowDeleteFrame ==
    [][\A n \in DOMAIN nodes :
         DeleteNodeStep(n) =>
            /\ \A m \in (DOMAIN nodes) \ {n} : m \in DOMAIN nodes' /\ nodes'[m] = nodes[m]
            /\ \A r \in (DOMAIN refs) \ {nodes[n].ref_id} :
                  r \in DOMAIN refs' /\ refs'[r] = refs[r]
            /\ DOMAIN comps' = DOMAIN comps
            /\ \A c \in DOMAIN comps :
                  /\ comps'[c].type = comps[c].type
                  /\ comps'[c].child_node_id = comps[c].child_node_id
                  /\ comps'[c].reference_count # comps[c].reference_count
                        => /\ nodes[n].ref_id \in DOMAIN refs
                           /\ refs[nodes[n].ref_id].comp_id = c
      ]_vars

\* C15 witness: after delete_node(n), a sibling still names n as its
\* neighbour and a Container still names a deleted node as its first child.
C15_Witness ==
    /\ last.op = "delete_node" /\ last.ret = "true"
    /\ \E m \in DOMAIN nodes :
          nodes[m].previous_node_id = last.id \/ nodes[m].next_node_id = last.id
    /\ \E c \in DOMAIN comps :
          IsSet(comps[c].child_node_id) /\ comps[c].child_node_id \notin DOMAIN nodes

\* C16: move_node(n, p, a) with n and a stored and a # n returns true and
\* leaves n.parent_node_id = p, n.previous_node_id = a, a.next_node_id = n,
\* n.next_node_id = b and b.previous_node_id = n, where b is a's next sibling
\* once n is detached (n's old next when a was n's previous, else a's next);
\* n's former neighbours point to each other, except for the pointers that
\* the insertion itself rewrites (a's next, b's previous).  On an id with no
\* Node it returns false and changes nothing.
C16_MovePostconditions ==
    [][\A n \in Ids :
         (last'.op = "move" /\ last'.id = n) =>
            IF n \notin DOMAIN nodes
            THEN last'.ret = "false" /\ nodes' = nodes /\ refs' = refs /\ comps' = comps
            ELSE LET a == last'.after_node_id
                     p == last'.new_parent_id
                     old_prev == nodes[n].previous_node_id
                     old_next == nodes[n].next_node_id
                 IN (a \in DOMAIN nodes /\ a # n) =>
                      LET b == IF a = old_prev THEN old_next ELSE nodes[a].next_node_id
                      IN /\ last'.ret = "true"
                         /\ (old_prev \in DOMAIN nodes /\ old_prev # a)
                               => nodes'[old_prev].next_node_id = old_next
                         /\ (old_next \in DOMAIN nodes /\ old_next # b)
                               => nodes'[old_next].previous_node_id = old_prev
                         /\ nodes'[n].parent_node_id = p
                         /\ nodes'[n].previous_node_id = a
                         /\ nodes'[a].next_node_id = n
                         /\ nodes'[n].next_node_id = (IF b \in DOMAIN nodes THEN b ELSE Null)
                         /\ b \in DOMAIN nodes => nodes'[b].previous_node_id = n
      ]_vars

\* The step is a run of validate_integrity.
ValidateStep == last'.op = "validate" /\ UNCHANGED <<pc, loc>>

\* The Nodes with a ref_id that names no Reference.
NodesWithoutReference == {n \in DOMAIN nodes : nodes[n].ref_id \notin DOMAIN refs}

\* The (node, field) pairs of the set node pointers that name no Node.
DanglingNodePointers ==
    {x \in (DOMAIN nodes) \X {"parent_node_id", "previous_node_id", "next_node_id"} :
        IsSet(nodes[x[1]][x[2]]) /\ nodes[x[1]][x[2]] \notin DOMAIN nodes}

\* The References with a comp_id that names no Component.
ReferencesWithoutComponent == {r \in DOMAIN refs : refs[r].comp_id \notin DOMAIN comps}

\* The Components whose reference_count is not the number of their References.
MiscountedComponents ==
    {c \in DOMAIN comps : comps[c].reference_count # Cardinality(RefsTo(refs, c))}

\* C17: validate_integrity returns the empty list exactly when every Node's
\* ref_id resolves, every set parent, previous and next pointer resolves,
\* every Reference's comp_id resolves and every reference_count equals the
\* number of References to the Component; each violation has a diagnostic
\* naming the offending id; and no record is modified.
C17_ValidatorSoundAndComplete ==
    [][ValidateStep =>
         /\ nodes' = nodes /\ refs' = refs /\ comps' = comps
         /\ last'.ret = {} <=>
               /\ NodesWithoutReference = {}
               /\ DanglingNodePointers = {}
               /\ ReferencesWithoutComponent = {}
               /\ MiscountedComponents = {}
         /\ \A n \in NodesWithoutReference :
               \E d \in last'.ret : d.entity = "Node" /\ d.id = n /\ d.field = "ref_id"
         /\ \A x \in DanglingNodePointers :
               \E d \in last'.ret : d.entity = "Node" /\ d.id = x[1] /\ d.field = x[2]
         /\ \A r \in ReferencesWithoutComponent :
               \E d \in last'.ret : d.entity = "Reference" /\ d.id = r
         /\ \A c \in MiscountedComponents :
               \E d \in last'.ret : d.entity = "Component" /\ d.id = c
      ]_vars

\* The Nodes that own Component c: their Reference names c.
Owners(c) ==
    {n \in DOMAIN nodes : nodes[n].ref_id \in DOMAIN refs /\ refs[nodes[n].ref_id].comp_id = c}

\* The Containers whose set child_node_id names no Node, or a Node whose
\* parent_node_id is not a Node that owns the Container.
BrokenContainers ==
    {c \in DOMAIN comps :
        /\ IsContainer(comps[c])
        /\ IsSet(comps[c].child_node_id)
        /\ \/ comps[c].child_node_id \notin DOMAIN nodes
           \/ nodes[comps[c].child_node_id].parent_node_id \notin Owners(c)}

\* C18: when some Container's set child_node_id points to a missing Node or
\* to a Node whose parent is not the Container's owner, validate_integrity
\* returns at least one diagnostic.  Stated for the graphs in which no id 0
\* was ever drawn, where no pointer is taken for an absent one.
C18_ValidatorChecksContainerChild ==
    [][(/\ ValidateStep
        /\ \A k \in Kinds : ~zeroUsed[k]
        /\ BrokenContainers # {}) => last'.ret # {}]_vars

\* C19: after add-child and move_node calls, one at a time, on Containers
\* that each have exactly one owning Node, every set child_node_id points to
\* a stored Node that has no previous sibling and whose parent is the owning
\* Node, and every node of that chain has the same parent.  Stated for the
\* graphs in which no id 0 was ever drawn.
C19_ChildPointerIsChainHead ==
    (\A k \in Kinds : ~zeroUsed[k]) =>
        \A c \in DOMAIN comps :
            (/\ IsContainer(comps[c])
             /\ IsSet(comps[c].child_node_id)
             /\ \A x \in DOMAIN comps : IsContainer(comps[x]) => Cardinality(Owners(x)) = 1)
            => LET head == comps[c].child_node_id
                   chain == ChainFrom(nodes, head, Cardinality(DOMAIN nodes))
               IN /\ head \in DOMAIN nodes
                  /\ ~IsSet(nodes[head].previous_node_id)
                  /\ nodes[head].parent_node_id \in Owners(c)
                  /\ \A i \in DOMAIN chain :
                        nodes[chain[i]].parent_node_id = nodes[head].parent_node_id

\* The paths of a list of paths.
PathsOf(created_files) == {created_files[i] : i \in DOMAIN created_files}

C22_ResolveNotFound ==
    last.op = "resolve" =>
        LET n == last.id
            c == CompOfNode(Cur, n)
        IN IF c = <<>>
           THEN last.ret = NotFound
           ELSE /\ last.ret.status = "ok"
                /\ {"node_id", "ref_id", "comp_id", "type", "config", "children"}
                      \subseteq DOMAIN last.ret
                /\ last.ret.node_id = n
                /\ last.ret.ref_id = nodes[n].ref_id
                /\ last.ret.comp_id = c[1]
                /\ last.ret.type = comps[c[1]].type

\* C22 witness: resolve_node returned NotFound for a stored Node whose
\* Reference is stored and names a Component that has no record.
C22_Witness ==
    /\ last.op = "resolve"
    /\ last.ret = NotFound
    /\ last.id \in DOMAIN nodes
    /\ nodes[last.id].ref_id \in DOMAIN refs
    /\ refs[nodes[last.id].ref_id].comp_id \notin DOMAIN comps
    /\ \A k \in Kinds : ~zeroUsed[k]

\* C23: on every graph that create-node, add-child and move_node calls
\* leave, cyclic sibling and parent/child chains included, resolve_node and
\* _delete_node_tree terminate: neither walk goes on without end.
C23_WalksTerminate ==
    /\ last.op = "resolve" => last.ret.status # "diverged"
    /\ last.op = "delete_subtree" => last.ret \in {"ok", "error"}

\* Thread t is inside the with block of a record operation.
InRecordOp(t) == pc[t] \notin {"idle", "acquire"}

\* C24: at most one thread is inside a record operation at a time, a thread
\* holds the lock exactly while it is inside one (not between two of them,
\* and never when it asks for the lock), a thread that waits for the lock
\* can always get it once the holder leaves, and no load or stored record
\* file carries a partly written content.
C24_OneRecordOperationAtATime ==
    /\ Cardinality({t \in Threads : InRecordOp(t)}) <= 1
    /\ \A t \in Threads : loc[t].holds <=> InRecordOp(t)
    /\ (\E t \in Threads : pc[t] = "acquire")
          => (LockFree \/ \E u \in Threads : InRecordOp(u))
    /\ \A path \in Paths : path \in DOMAIN nodes => nodes[path] # Partial
    /\ \A t \in Threads : loc[t].got # <<Partial>>

\* C24 witness: one thread is in the middle of a save (its temporary file
\* half written) while another waits for the lock.
C24_Witness ==
    \E t, u \in Threads :
        /\ pc[t] = "save_write"
        /\ nodes[TmpPath(loc[t].path)] = Partial
        /\ pc[u] = "acquire"
        /\ loc[u].path = loc[t].path

ResolvedChildIds(db, node_id) ==
    LET res == ResolveNode(db, node_id, 1)
    IN IF res.status = "ok"
       THEN [i \in DOMAIN res.children |-> res.children[i].node_id]
       ELSE <<>>

\* seq with x put right after the element a.
InsertAfter(seq, a, x) ==
    LET i == CHOOSE j \in DOMAIN seq : seq[j] = a
    IN SubSeq(seq, 1, i) \o <<x>> \o SubSeq(seq, i + 1, Len(seq))

\* The nodes of seq are linked to one another in that order, both ways.
LinkedInOrder(ns, seq) ==
    \A i \in DOMAIN seq :
        /\ seq[i] \in DOMAIN ns
        /\ ns[seq[i]].previous_node_id = (IF i = 1 THEN Null ELSE seq[i - 1])
        /\ ns[seq[i]].next_node_id = (IF i = Len(seq) THEN Null ELSE seq[i + 1])

\* The nodes through which the Container of a finished add-child is resolved:
\* the parent node, or the nodes of the view.
ParentsOf(db, done) ==
    IF done.op = "add_child" THEN {done.id} \cap ContainerNodes(db)
    ELSE {n \in ContainerNodes(db) : db.r[db.n[n].ref_id].comp_id = done.id}

\* C26: after an add-child on a Container, with after_node_id absent or one
\* of the container's children, the container's resolved children are the
\* former ones in their order with the new node right after after_node_id,
\* or last when none was given; a container that had no child points to the
\* new node; and the children are linked symmetrically in that order.
C26_AddChildPosition ==
    [][(last'.op \in {"add_child", "add_to_view"} /\ last'.ret = "ok")
       => \A parent \in ParentsOf(Cur, last') :
            LET old == ResolvedChildIds(Cur, parent)
                new == ResolvedChildIds(DB(nodes', refs', comps'), parent)
                comp_id == refs[nodes[parent].ref_id].comp_id
                after == last'.after_node_id
            IN (after = Null \/ \E j \in DOMAIN old : old[j] = after)
               => /\ new = (IF after = Null THEN Append(old, last'.new_node_id)
                            ELSE InsertAfter(old, after, last'.new_node_id))
                  /\ old = <<>> => comps'[comp_id].child_node_id = last'.new_node_id
                  /\ LinkedInOrder(nodes', new)]_vars

\* The node tree of a ViewContainer: the nodes that lead to it and every
\* node reached from its child_node_id chain, nested Containers included.
ViewTree(db, comp_id) ==
    {n \in DOMAIN db.n : CompOfNode(db, n) = <<comp_id>>}
    \cup (IF db.c[comp_id].child_node_id \in DOMAIN db.n
          THEN SubtreeOf(db, db.c[comp_id].child_node_id) ELSE {})

\* C27: after DELETE /views/<comp_id> the ViewContainer, every node of its
\* tree and the References of those nodes are gone, and no stored Reference
\* points to the deleted ViewContainer.
C27_DeleteViewRemovesTree ==
    [][(last'.op = "delete_view" /\ \A k \in Kinds : ~zeroUsed[k])
       => /\ last'.id \notin DOMAIN comps'
          /\ \A n \in ViewTree(Cur, last'.id) :
                /\ n \notin DOMAIN nodes'
                /\ nodes[n].ref_id \notin DOMAIN refs'
          /\ \A r \in DOMAIN refs' : refs'[r].comp_id # last'.id]_vars

\* The elements of a sequence.
Range(seq) == {seq[i] : i \in DOMAIN seq}

\* C28: the first move made on the tree, of a child of a Container to
\* another position among that Container's children (first, or after a
\* sibling), leaves the set of the Container's resolved children as it was.
C28_MoveKeepsSiblings ==
    [][(last'.op = "move" /\ last'.ret = "true" /\ moves = 0)
       => \A parent \in ContainerNodes(Cur) :
            LET old == Range(ResolvedChildIds(Cur, parent))
                new == Range(ResolvedChildIds(DB(nodes', refs', comps'), parent))
            IN (/\ last'.new_parent_id = parent
                /\ last'.id \in old
                /\ last'.after_node_id \in (old \cup {Null}) \ {last'.id})
               => new = old]_vars

\* C30: in a detach that started with a positive reference_count equal to
\* the number of persisted References (no crash before it), the step that
\* persists the lowered count leaves the Reference in place and the count
\* one less than the number of persisted References; a crash inside the
\* detach never leaves the count above that number, and a crash right after
\* that step leaves it one below.
C30_DetachUnderCounts ==
    [][\A t \in Threads :
         LET c == loc[t].comp_id
             persisted == Cardinality(RefsTo(refs', c))
         IN (pc[t] = "detach" /\ crashes = 0 /\ c \in DOMAIN comps')
            => /\ (/\ loc[t].i = 2 /\ pc'[t] = "detach" /\ loc'[t].i = 3
                   /\ loc[t].comp # <<>>
                   /\ loc[t].comp[1].reference_count > 0)
                  => /\ loc[t].ref_id \in DOMAIN refs'
                     /\ comps'[c].reference_count = persisted - 1
               /\ (pc'[t] = "idle" /\ crashes' = 1)
                  => /\ comps'[c].reference_count <= persisted
                     /\ (loc[t].i = 3 /\ loc[t].comp[1].reference_count > 0)
                           => comps'[c].reference_count = persisted - 1]_vars

\* C30 witness: after a crash inside a detach no handler is running and a
\* Component's count is one less than the number of persisted References.
C30_Witness ==
    /\ AllIdle /\ crashes = 1
    /\ \E c \in DOMAIN comps :
          /\ RefsTo(refs, c) # {}
          /\ comps[c].reference_count = Cardinality(RefsTo(refs, c)) - 1

\* C29: once every add-child request has completed, each node whose parent
\* is a Container's node is on the chain that starts at the Container's
\* child_node_id, and that chain is linked symmetrically.
C29_ConcurrentAddsBothReachable ==
    (AllIdle /\ \A k \in Kinds : ~zeroUsed[k])
    => \A parent \in ContainerNodes(Cur) :
         LET chain == ChainFrom(nodes, ChildPointer(Cur, parent), Cardinality(DOMAIN nodes) + 1)
         IN /\ {n \in DOMAIN nodes : nodes[n].parent_node_id = parent} \subseteq Range(chain)
            /\ LinkedInOrder(nodes, chain)

====
